---- MODULE Spec2Model ----
(***************************************************************************)
(* Temporal preprocessing and cross-user timezone conversion of the task   *)
(* bot: utils/timezone_converter.py, config/timezone_config.py and         *)
(* utils/temporal_processor.py.                                            *)
(*                                                                         *)
(* Representation of Python values:                                        *)
(*   "YYYY-MM-DD" string   <<year, month, day>>                            *)
(*   "HH:MM" string        <<hour, minute>>                                *)
(*   "" (empty string)     <<>>                                            *)
(*   None                  <<-1>>                                          *)
(*   datetime              [year, month, day, hour, minute, second]        *)
(*   dict                  a function whose DOMAIN is the set of its keys  *)
(***************************************************************************)
EXTENDS Integers, Sequences, FiniteSets, TLC

VARIABLES pc, op,
          dt, time_str, from_user, to_user, conv_result, back_result,
          task_in, task_json, assigner,
          text, reference_time, parser, result, prompt,
          calls, tables

vars == <<pc, op, dt, time_str, from_user, to_user, conv_result, back_result,
          task_in, task_json, assigner, text, reference_time, parser, result,
          prompt, calls, tables>>

EmptyStr == <<>>
None == <<-1>>

\* Python truthiness of an Optional[str]
Truthy(s) == s # None /\ s # EmptyStr

\* dict.get(key, default)
Get(d, k, default) == IF k \in DOMAIN d THEN d[k] ELSE default

\* d[k] = v on a dict (adds the key when it is missing)
Put(d, k, v) == [x \in DOMAIN d \cup {k} |-> IF x = k THEN v ELSE d[x]]

EmptyDict == [x \in {} |-> EmptyStr]

----------------------------------------------------------------------------
(* Proleptic Gregorian calendar, as datetime computes it *)

MinYear == 2024
MaxYear == 2026

IsLeap(y) == (y % 4 = 0 /\ y % 100 # 0) \/ y % 400 = 0

DaysInMonth(y, m) ==
    IF m = 2 THEN (IF IsLeap(y) THEN 29 ELSE 28)
    ELSE IF m \in {4, 6, 9, 11} THEN 30 ELSE 31

DaysBeforeMonthTable == <<0, 31, 59, 90, 120, 151, 181, 212, 243, 273, 304, 334>>

DaysBeforeMonth(y, m) ==
    DaysBeforeMonthTable[m] + (IF m > 2 /\ IsLeap(y) THEN 1 ELSE 0)

DaysBeforeYear(y) ==
    365 * (y - 1) + ((y - 1) \div 4) - ((y - 1) \div 100) + ((y - 1) \div 400)

ToOrdinal(y, m, d) == DaysBeforeYear(y) + DaysBeforeMonth(y, m) + d

\* date.weekday(): Monday = 0 ... Sunday = 6
Weekday(y, m, d) == (ToOrdinal(y, m, d) + 6) % 7

\* minutes since the start of ordinal day 0 of a wall-clock datetime
ToMinutes(d) == ToOrdinal(d.year, d.month, d.day) * 1440 + d.hour * 60 + d.minute

FromMinutes(n, sec) ==
    LET ord == n \div 1440
        y == CHOOSE yy \in (MinYear - 1)..(MaxYear + 1) :
                 DaysBeforeYear(yy) < ord /\ ord <= DaysBeforeYear(yy + 1)
        doy == ord - DaysBeforeYear(y)
        m == CHOOSE mm \in 1..12 :
                 DaysBeforeMonth(y, mm) < doy
                 /\ doy <= DaysBeforeMonth(y, mm) + DaysInMonth(y, mm)
    IN [year |-> y, month |-> m, day |-> doy - DaysBeforeMonth(y, m),
        hour |-> (n % 1440) \div 60, minute |-> n % 60, second |-> sec]

\* datetime + timedelta(minutes=k): wall-clock arithmetic, tzinfo kept
AddMinutes(d, k) == FromMinutes(ToMinutes(d) + k, d.second)

\* datetime.strptime(s, "%Y-%m-%d")
Strptime(s) == [year |-> s[1], month |-> s[2], day |-> s[3],
                hour |-> 0, minute |-> 0, second |-> 0]

\* dt.strftime("%Y-%m-%d") and dt.strftime("%H:%M")
StrftimeDate(d) == <<d.year, d.month, d.day>>
StrftimeTime(d) == <<d.hour, d.minute>>

----------------------------------------------------------------------------
(* config/timezone_config.py *)

\* str.lower() on the identifiers the model draws
Lower(s) ==
    CASE s = "Colin" -> "colin"
      [] s = "COLIN" -> "colin"
      [] s = "Joel" -> "joel"
      [] s = "Bryan" -> "bryan"
      [] s = "Unknown" -> "unknown"
      [] s = "Colin_10NetZero" -> "colin_10netzero"
      [] s = "Colin Aulds | 10NetZero.com" -> "colin aulds | 10netzero.com"
      [] OTHER -> s

USER_TIMEZONES ==
    [n \in {"Colin", "Joel", "Bryan"} |->
        IF n = "Colin" THEN "America/Los_Angeles" ELSE "America/Chicago"]

TELEGRAM_USER_MAPPING ==
    [n \in {"colin aulds | 10netzero.com", "Colin_10NetZero"} |-> "Colin"]

DEFAULT_TIMEZONE == "UTC"

\* variant: the tables are looked up with the identifier as written only
normalize_username_exact(username) ==
    IF username \in DOMAIN TELEGRAM_USER_MAPPING
    THEN TELEGRAM_USER_MAPPING[username]
    ELSE username

normalize_username(username) ==
    IF username \in DOMAIN TELEGRAM_USER_MAPPING
    THEN TELEGRAM_USER_MAPPING[username]
    ELSE IF \E t \in DOMAIN TELEGRAM_USER_MAPPING : Lower(t) = Lower(username)
    THEN TELEGRAM_USER_MAPPING[
             CHOOSE t \in DOMAIN TELEGRAM_USER_MAPPING : Lower(t) = Lower(username)]
    ELSE IF \E c \in DOMAIN USER_TIMEZONES : Lower(c) = Lower(username)
    THEN CHOOSE c \in DOMAIN USER_TIMEZONES : Lower(c) = Lower(username)
    ELSE username

\* variant: an unregistered name falls back to the first roster zone
get_user_timezone_roster_default(username) ==
    Get(USER_TIMEZONES, normalize_username(username), USER_TIMEZONES["Colin"])

\* the key of the ZoneInfo object returned; ZoneInfo caches by key, so two
\* lookups of one key give the same object
get_user_timezone(username) ==
    Get(USER_TIMEZONES, normalize_username(username), DEFAULT_TIMEZONE)

----------------------------------------------------------------------------
(* zoneinfo: the three zones of the roster *)

StdOffset(tz) ==
    CASE tz = "America/Los_Angeles" -> -480
      [] tz = "America/Chicago" -> -360
      [] OTHER -> 0

HasDst(tz) == tz \in {"America/Los_Angeles", "America/Chicago"}

\* day of month of the n-th Sunday of month m
NthSunday(y, m, n) ==
    CHOOSE d \in (7 * (n - 1) + 1)..(7 * n) : Weekday(y, m, d) = 6

\* wall-clock minute (standard time) at which daylight time starts: 02:00 on
\* the second Sunday of March
DstStartWall(y) == ToOrdinal(y, 3, NthSunday(y, 3, 2)) * 1440 + 120

\* wall-clock minute (daylight time) at which daylight time ends: 02:00 on
\* the first Sunday of November
DstEndWall(y) == ToOrdinal(y, 11, NthSunday(y, 11, 1)) * 1440 + 120

\* variant: the standard offset all year
FixedOffsetOfWall(tz, d) == StdOffset(tz)

\* tz.utcoffset(dt) for a wall-clock datetime with fold = 0: a skipped time
\* takes the offset before the transition, a repeated one the first occurrence
UtcOffsetOfWall(tz, d) ==
    LET w == ToMinutes(d)
    IN IF HasDst(tz) /\ w >= DstStartWall(d.year) + 60 /\ w < DstEndWall(d.year)
       THEN StdOffset(tz) + 60
       ELSE StdOffset(tz)

\* variant: the standard offset all year
FixedOffsetOfInstant(tz, u) == StdOffset(tz)

\* the offset tz.fromutc() applies to the UTC minute u
UtcOffsetOfInstant(tz, u) ==
    LET y == FromMinutes(u, 0).year
    IN IF HasDst(tz)
          /\ u >= DstStartWall(y) - StdOffset(tz)
          /\ u < DstEndWall(y) - (StdOffset(tz) + 60)
       THEN StdOffset(tz) + 60
       ELSE StdOffset(tz)

\* variant: converts through UTC also when both zones are the same
AstimezoneThroughUtc(d, from_tz, to_tz) ==
    LET u == ToMinutes(d) - UtcOffsetOfWall(from_tz, d)
    IN FromMinutes(u + UtcOffsetOfInstant(to_tz, u), d.second)

\* dt.replace(tzinfo=from_tz).astimezone(to_tz), as a wall-clock datetime of
\* to_tz; astimezone returns self when to_tz is the datetime's own tzinfo
Astimezone(d, from_tz, to_tz) ==
    IF from_tz = to_tz THEN d
    ELSE LET u == ToMinutes(d) - UtcOffsetOfWall(from_tz, d)
         IN FromMinutes(u + UtcOffsetOfInstant(to_tz, u), d.second)

----------------------------------------------------------------------------
(* utils/timezone_converter.py *)

\* hour, minute = map(int, time_str.split(":"))
ParseHourMinute(s) == [hour |-> s[1], minute |-> s[2]]

\* "hour, minute = map(int, time_str.split(":"))" raises ValueError: the
\* string is not two integers around one colon (<<15>> is the string "15")
TimeParseRaises(s) == Len(s) # 2

\* convert_time_between_users raises instead of returning
ConvertRaises(t, is_date_only) ==
    Truthy(t) /\ ~is_date_only /\ TimeParseRaises(t)

\* variant: a missing time is taken as midnight and converted
convert_missing_time_as_midnight(d, t, fu, tu, is_date_only) ==
    LET from_tz == get_user_timezone(fu)
        to_tz == get_user_timezone(tu)
        hm == IF Truthy(t) THEN ParseHourMinute(t) ELSE [hour |-> 0, minute |-> 0]
        dt_with_time == [d EXCEPT !.hour = hm.hour, !.minute = hm.minute]
        dt_to == Astimezone(dt_with_time, from_tz, to_tz)
    IN IF is_date_only
       THEN <<StrftimeDate(d), EmptyStr>>
       ELSE <<StrftimeDate(dt_to),
              IF Truthy(t) THEN StrftimeTime(dt_to) ELSE EmptyStr>>

convert_time_between_users(d, t, fu, tu, is_date_only) ==
    LET from_tz == get_user_timezone(fu)
        to_tz == get_user_timezone(tu)
    IN IF Truthy(t) /\ ~is_date_only
       THEN LET hm == ParseHourMinute(t)
                dt_with_time == [d EXCEPT !.hour = hm.hour, !.minute = hm.minute]
                dt_to == Astimezone(dt_with_time, from_tz, to_tz)
            IN <<StrftimeDate(dt_to), StrftimeTime(dt_to)>>
       ELSE <<StrftimeDate(d), EmptyStr>>

\* the timezone_info dicts of the three branches
TimezoneInfo(assigner_tz, assignee_tz, converted) ==
    [assigner_tz |-> assigner_tz, assignee_tz |-> assignee_tz,
     converted |-> converted]

TimezoneInfoWithContext(timezone_context, assigner_tz, assignee_tz) ==
    [times_are_in |-> timezone_context, assigner_tz |-> assigner_tz,
     assignee_tz |-> assignee_tz, converted |-> FALSE]

\* variant: the due pair converted from assignee to assigner
ConvertDueSwapped(task, asg, assignee) ==
    LET base_date == Strptime(task["due_date"])
        due_time == Get(task, "due_time", EmptyStr)
        c == convert_time_between_users(base_date, due_time, assignee, asg, FALSE)
    IN IF Truthy(due_time)
          /\ normalize_username(asg) # normalize_username(assignee)
       THEN Put(Put(task, "due_date", c[1]), "due_time", c[2])
       ELSE task

\* the due pair of the converting branch (lines 152-165)
ConvertDue(task, asg, assignee) ==
    LET base_date == Strptime(task["due_date"])
        due_time == Get(task, "due_time", EmptyStr)
        c == convert_time_between_users(base_date, due_time, asg, assignee, FALSE)
    IN IF Truthy(due_time)
          /\ normalize_username(asg) # normalize_username(assignee)
       THEN Put(Put(task, "due_date", c[1]), "due_time", c[2])
       ELSE task

\* variant: one guard for both pairs, a reminder time without a date being
\* converted on the due date
ConvertReminderOnDueDate(task, asg, assignee) ==
    LET reminder_date == Get(task, "reminder_date", None)
        reminder_time == Get(task, "reminder_time", None)
        base == IF Truthy(reminder_date) THEN reminder_date ELSE task["due_date"]
    IN IF Truthy(reminder_time) /\ ~TimeParseRaises(reminder_time)
          /\ normalize_username(asg) # normalize_username(assignee)
       THEN LET c == convert_time_between_users(Strptime(base),
                         reminder_time, asg, assignee, FALSE)
            IN Put(Put(task, "reminder_date", c[1]), "reminder_time", c[2])
       ELSE task

\* the reminder pair of the converting branch (lines 167-183)
ConvertReminder(task, asg, assignee) ==
    LET reminder_date == Get(task, "reminder_date", None)
        reminder_time == Get(task, "reminder_time", None)
    IN IF Truthy(reminder_date) /\ Truthy(reminder_time)
          /\ normalize_username(asg) # normalize_username(assignee)
       THEN LET c == convert_time_between_users(Strptime(reminder_date),
                         reminder_time, asg, assignee, FALSE)
            IN Put(Put(task, "reminder_date", c[1]), "reminder_time", c[2])
       ELSE task

\* the conversion of the due pair raises (lines 152-158)
DueRaises(task, asg, assignee) ==
    /\ Truthy(Get(task, "due_time", EmptyStr))
    /\ normalize_username(asg) # normalize_username(assignee)
    /\ ConvertRaises(Get(task, "due_time", EmptyStr), FALSE)

\* the conversion of the reminder pair raises (lines 167-177)
ReminderRaises(task, asg, assignee) ==
    /\ Truthy(Get(task, "reminder_date", None))
    /\ Truthy(Get(task, "reminder_time", None))
    /\ normalize_username(asg) # normalize_username(assignee)
    /\ ConvertRaises(Get(task, "reminder_time", None), FALSE)

\* variant: the comparison with the sentinel inverted
ContextIsExplicitInverted(timezone_context) == timezone_context = "assigner_local"

\* timezone_context != "assigner_local" (line 119)
ContextIsExplicit(timezone_context) == timezone_context # "assigner_local"

\* variant: the raw identifiers compared
SamePersonRaw(asg, assignee) == asg = assignee

\* assigner_normalized == assignee_normalized (lines 134-137)
SamePerson(asg, assignee) ==
    normalize_username(asg) = normalize_username(assignee)

\* variant: the assignee of the returned task is replaced by its canonical name
process_task_canonical_assignee(task, asg) ==
    LET assigner_tz == get_user_timezone(asg)
        assignee == Get(task, "assignee", asg)
        assignee_tz == get_user_timezone(assignee)
        timezone_context == Get(task, "timezone_context", "assigner_local")
        named == Put(task, "assignee", normalize_username(assignee))
    IN IF ContextIsExplicit(timezone_context)
       THEN [status |-> "returned",
             task |-> Put(named, "timezone_info",
                          TimezoneInfoWithContext(timezone_context,
                                                  assigner_tz, assignee_tz))]
       ELSE IF SamePerson(asg, assignee)
       THEN [status |-> "returned",
             task |-> Put(named, "timezone_info",
                          TimezoneInfo(assigner_tz, assignee_tz, FALSE))]
       ELSE IF "due_date" \notin DOMAIN task \/ DueRaises(task, asg, assignee)
       THEN [status |-> "raised", task |-> task]
       ELSE IF ReminderRaises(task, asg, assignee)
       THEN [status |-> "raised", task |-> ConvertDue(task, asg, assignee)]
       ELSE [status |-> "returned",
             task |-> Put(ConvertReminder(ConvertDue(named, asg, assignee),
                                          asg, assignee),
                          "timezone_info",
                          TimezoneInfo(assigner_tz, assignee_tz, TRUE))]

\* [status, task]: status "raised" when task_json["due_date"] raises KeyError
\* or a conversion raises ValueError; task is the dict as the call leaves it
\* (it is mutated in place)
process_task_with_timezones(task, asg) ==
    LET assigner_tz == get_user_timezone(asg)
        assignee == Get(task, "assignee", asg)
        assignee_tz == get_user_timezone(assignee)
        timezone_context == Get(task, "timezone_context", "assigner_local")
    IN IF ContextIsExplicit(timezone_context)
       THEN [status |-> "returned",
             task |-> Put(task, "timezone_info",
                          TimezoneInfoWithContext(timezone_context,
                                                  assigner_tz, assignee_tz))]
       ELSE IF SamePerson(asg, assignee)
       THEN [status |-> "returned",
             task |-> Put(task, "timezone_info",
                          TimezoneInfo(assigner_tz, assignee_tz, FALSE))]
       ELSE IF "due_date" \notin DOMAIN task \/ DueRaises(task, asg, assignee)
       THEN [status |-> "raised", task |-> task]
       ELSE IF ReminderRaises(task, asg, assignee)
       THEN [status |-> "raised", task |-> ConvertDue(task, asg, assignee)]
       ELSE [status |-> "returned",
             task |-> Put(ConvertReminder(ConvertDue(task, asg, assignee),
                                          asg, assignee),
                          "timezone_info",
                          TimezoneInfo(assigner_tz, assignee_tz, TRUE))]

----------------------------------------------------------------------------
(* utils/temporal_processor.py: the text side *)

(* A text is the sequence of its words, joined by single blanks.  Removing a *)
(* phrase leaves the blanks on both of its sides: the empty word Gap stands  *)
(* for the removed phrase, so that <<"a", Gap, "b">> is "a  b".  A matched   *)
(* span is the sequence of its words, a trailing Gap being a trailing blank; *)
(* the empty sequence is None (no match).                                     *)

Gap == ""
NoPart == <<>>

MinOf(S) == CHOOSE m \in S : \A k \in S : m <= k
MaxOf(S) == CHOOSE m \in S : \A k \in S : m >= k

\* str.strip()
Strip(ws) ==
    LET idx == {i \in 1..Len(ws) : ws[i] # Gap}
    IN IF idx = {} THEN <<>> ELSE SubSeq(ws, MinOf(idx), MaxOf(idx))

\* index of the first word after position i, 0 when there is none
NextWord(ws, i) ==
    LET idx == {j \in (i + 1)..Len(ws) : ws[j] # Gap}
    IN IF idx = {} THEN 0 ELSE MinOf(idx)

\* str.upper() and re.IGNORECASE on the words the model draws
Upper(w) == CASE w = "pst" -> "PST" [] w = "cst" -> "CST" [] OTHER -> w
Fold(w) == CASE w = "CST" -> "cst" [] w = "PST" -> "pst" [] OTHER -> Lower(w)

\* the words of the model that end with s (a pattern is not anchored at a
\* word start, so "end of" is found in "weekend of" and "on time" in
\* "houston time")
WordsEndingWith(s) ==
    CASE s = "end" -> {"end", "weekend"}
      [] s = "on" -> {"on", "houston"}
      [] OTHER -> {s}

EndsWith(w, s) == Fold(w) \in WordsEndingWith(s)

\* leading \d{1,2} of a word, "" when it starts with no digit
DigitPrefix(w) ==
    CASE w = "30" -> "30" [] w = "3pm" -> "3" [] w = "4pm" -> "4" [] OTHER -> ""

\* \d{1,2}(?::\d{2})?(?:am|pm) and \d+ as whole words
IsTimeLiteral(w) == w \in {"3pm", "4pm"}
IsDigits(w) == w \in {"30"}

TzAbbreviations == {"CST", "CDT", "PST", "PDT", "EST", "EDT", "MST", "MDT"}

\* self.city_to_tz, in insertion order
city_to_tz ==
    << [city |-> <<"houston">>, tz |-> "CST"],
       [city |-> <<"chicago">>, tz |-> "CST"],
       [city |-> <<"dallas">>, tz |-> "CST"],
       [city |-> <<"austin">>, tz |-> "CST"],
       [city |-> <<"la">>, tz |-> "PST"],
       [city |-> <<"los", "angeles">>, tz |-> "PST"],
       [city |-> <<"san", "francisco">>, tz |-> "PST"],
       [city |-> <<"seattle">>, tz |-> "PST"],
       [city |-> <<"new", "york">>, tz |-> "EST"],
       [city |-> <<"nyc">>, tz |-> "EST"],
       [city |-> <<"boston">>, tz |-> "EST"],
       [city |-> <<"miami">>, tz |-> "EST"] >>

\* \b<city>\s+time\b matches at word i
CityAt(ws, i, city) ==
    /\ i + Len(city) <= Len(ws)
    /\ \A j \in 1..Len(city) : Fold(ws[i + j - 1]) = city[j]
    /\ Fold(ws[i + Len(city)]) = "time"

\* re.sub(city_pattern, "", text)
RECURSIVE SubCity(_, _, _)
SubCity(ws, i, city) ==
    IF i > Len(ws) THEN <<>>
    ELSE IF CityAt(ws, i, city)
    THEN <<Gap>> \o SubCity(ws, i + Len(city) + 1, city)
    ELSE <<ws[i]>> \o SubCity(ws, i + 1, city)

\* None is the empty dict
_extract_timezone(ws) ==
    LET tzs == {i \in 1..Len(ws) : Upper(ws[i]) \in TzAbbreviations}
        cities == {c \in 1..Len(city_to_tz) :
                      \E i \in 1..Len(ws) : CityAt(ws, i, city_to_tz[c].city)}
    IN IF tzs # {}
       THEN [timezone |-> Upper(ws[MinOf(tzs)]),
             cleaned_text |-> Strip([i \in 1..Len(ws) |->
                                  IF i \in tzs THEN Gap ELSE ws[i]])]
       ELSE IF cities # {}
       THEN [timezone |-> city_to_tz[MinOf(cities)].tz,
             cleaned_text |-> Strip(SubCity(ws, 1, city_to_tz[MinOf(cities)].city))]
       ELSE EmptyDict

\* word i of t, Gap beyond its end
At(t, i) == IF i \in 1..Len(t) THEN t[i] ELSE Gap

\* what is left of word w before its suffix s, and after its prefix p
StripSuffix(w, s) ==
    CASE Fold(w) = "weekend" /\ s = "end" -> "week"
      [] Fold(w) = "houston" /\ s = "on" -> "houst"
      [] OTHER -> ""

StripPrefix(w, p) ==
    CASE w = "3pm" /\ p = "3" -> "pm"
      [] w = "4pm" /\ p = "4" -> "pm"
      [] OTHER -> ""

\* the keyword of each pattern of self.custom_patterns, in insertion order:
\* "end of (?:the )?hour", "top of (?:the )?hour", "end of (?:the )?day",
\* "end of tonight", "(?:this )?weekend"
IdiomHead(n) == CASE n = 2 -> "top" [] n = 5 -> "this" [] OTHER -> "end"
IdiomLast(n) ==
    CASE n = 1 -> "hour" [] n = 2 -> "hour" [] n = 3 -> "day"
      [] n = 4 -> "tonight" [] OTHER -> "weekend"

\* number of words of the match of pattern n that starts in word i of t,
\* 0 when none starts there
IdiomLenAt(n, t, i) ==
    IF n = 5
    THEN IF EndsWith(t[i], "this") /\ Fold(At(t, i + 1)) = "weekend" THEN 2
         ELSE IF Fold(t[i]) = "weekend" THEN 1
         ELSE 0
    ELSE IF ~(EndsWith(t[i], IdiomHead(n)) /\ Fold(At(t, i + 1)) = "of") THEN 0
    ELSE IF Fold(At(t, i + 2)) = IdiomLast(n) THEN 3
    ELSE IF n # 4 /\ Fold(At(t, i + 2)) = "the" /\ Fold(At(t, i + 3)) = IdiomLast(n)
    THEN 4
    ELSE 0

\* re.search(pattern, text, re.IGNORECASE)
IdiomMatches(n, t) == \E i \in 1..Len(t) : IdiomLenAt(n, t, i) > 0

\* re.sub(pattern, repl, text, flags=re.IGNORECASE), repl a sequence of words
RECURSIVE SubIdiom(_, _, _, _)
SubIdiom(n, t, i, repl) ==
    IF i > Len(t) THEN <<>>
    ELSE IF IdiomLenAt(n, t, i) > 0
    THEN <<StripSuffix(t[i], IdiomHead(n)) \o Head(repl)>> \o Tail(repl)
         \o SubIdiom(n, t, i + IdiomLenAt(n, t, i), repl)
    ELSE <<t[i]>> \o SubIdiom(n, t, i + 1, repl)

\* the text matched by \d{1,2}(?::\d{2})?\s*(?:am|pm)? from the start of word k
DigitsSpan(t, k) ==
    IF IsTimeLiteral(t[k]) THEN <<t[k]>>
    ELSE IF IsDigits(t[k]) /\ NextWord(t, k) # 0
    THEN <<t[k]>> \o [j \in 1..(NextWord(t, k) - k) |-> Gap]
    ELSE <<DigitPrefix(t[k])>>

\* date_patterns[n] searched in t: the matched span, NoPart when none
DateMatch(n, t) ==
    LET kw == {i \in 1..Len(t) :
                  \/ n = 1 /\ Fold(t[i]) = "tomorrow"
                  \/ n = 2 /\ Fold(t[i]) = "today"
                  \/ n = 3 /\ Fold(t[i]) = "yesterday"}
        lead == {i \in 1..Len(t) :
                    /\ \/ n = 4 /\ EndsWith(t[i], "next")
                       \/ n = 5 /\ EndsWith(t[i], "this")
                       \/ n = 6 /\ EndsWith(t[i], "on")
                    /\ At(t, i + 1) # Gap}
        num == {i \in 1..Len(t) :
                   n = 8 /\ t[i] # Gap /\ DigitPrefix(At(t, i + 1)) # ""}
    IN IF kw # {} THEN <<t[MinOf(kw)]>>
       ELSE IF lead # {}
       THEN <<(CASE n = 4 -> "next" [] n = 5 -> "this" [] OTHER -> "on"),
              t[MinOf(lead) + 1]>>
       ELSE IF num # {}
       THEN <<t[MinOf(num)], DigitPrefix(t[MinOf(num) + 1])>>
       ELSE NoPart

\* time_patterns[n] searched in t
TimeMatch(n, t) ==
    LET at == {i \in 1..Len(t) :
                  n = 1 /\ EndsWith(t[i], "at") /\ DigitPrefix(At(t, i + 1)) # ""}
        lit == {i \in 1..Len(t) : n = 2 /\ IsTimeLiteral(t[i])}
        rel == {i \in 1..Len(t) :
                   /\ n = 3
                   /\ EndsWith(t[i], "before") \/ EndsWith(t[i], "after")
                   /\ At(t, i + 1) # Gap}
        dur == {i \in 1..Len(t) :
                   /\ n = 4 /\ IsDigits(t[i])
                   /\ NextWord(t, i) # 0
                   /\ Fold(t[NextWord(t, i)]) \in {"hour", "hours", "minute", "minutes"}
                   /\ NextWord(t, NextWord(t, i)) # 0
                   /\ Fold(t[NextWord(t, NextWord(t, i))]) \in {"before", "after"}}
    IN IF at # {} THEN <<"at">> \o DigitsSpan(t, MinOf(at) + 1)
       ELSE IF lit # {} THEN <<t[MinOf(lit)]>>
       ELSE IF rel # {}
       THEN <<(IF EndsWith(t[MinOf(rel)], "before") THEN "before" ELSE "after"),
              t[MinOf(rel) + 1]>>
       ELSE IF dur # {}
       THEN SubSeq(t, MinOf(dur), NextWord(t, NextWord(t, MinOf(dur))))
       ELSE NoPart

\* reminder_patterns[n] searched in t: group(1) of the match
ReminderMatch(n, t) ==
    LET \* remind\s+\w+\s+(?:at\s+)?(<time>): the word holding <time>, or 0
        timeWord(i) ==
            LET j == NextWord(t, i)
                k == IF j = 0 THEN 0 ELSE NextWord(t, j)
                k2 == IF k = 0 THEN 0 ELSE NextWord(t, k)
            IN IF k = 0 THEN 0
               ELSE IF Fold(t[k]) = "at" /\ k2 # 0 /\ DigitPrefix(t[k2]) # "" THEN k2
               ELSE IF DigitPrefix(t[k]) # "" THEN k
               ELSE 0
        named == {i \in 1..Len(t) :
                     n = 1 /\ EndsWith(t[i], "remind") /\ timeWord(i) # 0}
        tagged == {i \in 1..Len(t) :
                      /\ n = 2 /\ (IsTimeLiteral(t[i]) \/ IsDigits(t[i]))
                      /\ NextWord(t, i) # 0
                      /\ Fold(t[NextWord(t, i)]) = "reminder"}
        \* remind.*?(\d+)\s*minutes?\s*before: the words holding (\d+)
        counts == {j \in 1..Len(t) :
                      /\ n = 3 /\ IsDigits(t[j])
                      /\ \E i \in 1..(j - 1) : Fold(t[i]) \in {"remind", "reminder"}
                      /\ NextWord(t, j) # 0
                      /\ Fold(t[NextWord(t, j)]) \in {"minute", "minutes"}
                      /\ NextWord(t, NextWord(t, j)) # 0
                      /\ Fold(t[NextWord(t, NextWord(t, j))]) = "before"}
    IN IF named # {} THEN DigitsSpan(t, timeWord(MinOf(named)))
       ELSE IF tagged # {} THEN <<t[MinOf(tagged)]>>
       ELSE IF counts # {} THEN <<t[MinOf(counts)]>>
       ELSE NoPart

\* match.group of pattern n of the list: "date" is date_patterns, "time" is
\* time_patterns, "reminder" is reminder_patterns
PatternMatch(list, n, t) ==
    CASE list = "date" -> DateMatch(n, t)
      [] list = "time" -> TimeMatch(n, t)
      [] list = "reminder" -> ReminderMatch(n, t)

\* the span of the first pattern among patterns n..last of a list that matches
RECURSIVE FirstMatch(_, _, _, _)
FirstMatch(list, n, last, t) ==
    IF n > last THEN NoPart
    ELSE IF PatternMatch(list, n, t) # NoPart THEN PatternMatch(list, n, t)
    ELSE FirstMatch(list, n + 1, last, t)

_extract_time_parts(t) ==
    [date_part |-> FirstMatch("date", 1, 8, t),
     time_part |-> FirstMatch("time", 1, 4, t),
     reminder_part |-> FirstMatch("reminder", 1, 3, t),
     task_part |-> t]

----------------------------------------------------------------------------
(* utils/temporal_processor.py: dates and times *)

Pad2(n) == IF n < 10 THEN "0" \o ToString(n) ELSE ToString(n)

\* the text of strftime("%Y-%m-%d") and of "%H:%M", as one word
DateWord(d) == ToString(d.year) \o "-" \o Pad2(d.month) \o "-" \o Pad2(d.day)
TimeWord(h, m) == Pad2(h) \o ":" \o Pad2(m)

\* order of two datetimes of one timezone
LeqStrict(d1, d2) ==
    \/ ToMinutes(d1) < ToMinutes(d2)
    \/ ToMinutes(d1) = ToMinutes(d2) /\ d1.second < d2.second

Leq(d1, d2) ==
    \/ ToMinutes(d1) < ToMinutes(d2)
    \/ ToMinutes(d1) = ToMinutes(d2) /\ d1.second <= d2.second

_handle_end_of_hour_reminder_now(t, ref) ==
    LET at59 == [ref EXCEPT !.minute = 59, !.second = 0]
        next_hour == IF Leq(at59, ref) THEN AddMinutes(at59, 60) ELSE at59
    IN [processed_text |-> SubIdiom(1, t, 1, <<"at", TimeWord(next_hour.hour, 59)>>),
        temporal_data |-> [due_date |-> StrftimeDate(next_hour),
                           due_time |-> StrftimeTime(next_hour),
                           reminder_date |-> StrftimeDate(ref),
                           reminder_time |-> StrftimeTime(ref)]]

_handle_end_of_hour(t, ref) ==
    LET at59 == [ref EXCEPT !.minute = 59, !.second = 0]
        next_hour == IF Leq(at59, ref) THEN AddMinutes(at59, 60) ELSE at59
    IN [processed_text |-> SubIdiom(1, t, 1, <<"at", TimeWord(next_hour.hour, 59)>>),
        temporal_data |-> [due_date |-> StrftimeDate(next_hour),
                           due_time |-> StrftimeTime(next_hour),
                           reminder_date |-> StrftimeDate(next_hour),
                           reminder_time |-> StrftimeTime(next_hour)]]

_handle_top_of_hour_current(t, ref) ==
    LET next_hour == [ref EXCEPT !.minute = 0, !.second = 0]
    IN [processed_text |-> SubIdiom(2, t, 1, <<"at", TimeWord(next_hour.hour, 0)>>),
        temporal_data |-> [due_date |-> StrftimeDate(next_hour),
                           due_time |-> StrftimeTime(next_hour),
                           reminder_date |-> StrftimeDate(next_hour),
                           reminder_time |-> StrftimeTime(next_hour)]]

_handle_top_of_hour(t, ref) ==
    LET at00 == [ref EXCEPT !.minute = 0, !.second = 0]
        next_hour == IF Leq(at00, ref) THEN AddMinutes(at00, 60) ELSE at00
    IN [processed_text |-> SubIdiom(2, t, 1, <<"at", TimeWord(next_hour.hour, 0)>>),
        temporal_data |-> [due_date |-> StrftimeDate(next_hour),
                           due_time |-> StrftimeTime(next_hour),
                           reminder_date |-> StrftimeDate(next_hour),
                           reminder_time |-> StrftimeTime(next_hour)]]

_handle_end_of_day_midnight(t, ref) ==
    LET end_of_day == AddMinutes([ref EXCEPT !.hour = 23, !.minute = 59,
                                             !.second = 0], 1)
    IN [processed_text |-> SubIdiom(3, t, 1, <<"at", "00:00">>),
        temporal_data |-> [due_date |-> StrftimeDate(end_of_day),
                           due_time |-> <<0, 0>>,
                           reminder_date |-> StrftimeDate(end_of_day),
                           reminder_time |-> <<0, 0>>]]

_handle_end_of_day(t, ref) ==
    LET end_of_day == [ref EXCEPT !.hour = 23, !.minute = 59, !.second = 0]
    IN [processed_text |-> SubIdiom(3, t, 1, <<"at", "23:59">>),
        temporal_data |-> [due_date |-> StrftimeDate(end_of_day),
                           due_time |-> <<23, 59>>,
                           reminder_date |-> StrftimeDate(end_of_day),
                           reminder_time |-> <<23, 59>>]]

\* text.replace("tonight", "day"), then the end-of-day handler
_handle_end_of_tonight(t, ref) ==
    _handle_end_of_day([i \in 1..Len(t) |->
                           IF t[i] = "tonight" THEN "day" ELSE t[i]], ref)

_handle_weekend_noon_exclusive(t, ref) ==
    LET days_until_saturday == (5 - Weekday(ref.year, ref.month, ref.day)) % 7
        day == IF days_until_saturday = 0
               THEN (IF ref.hour > 12 THEN AddMinutes(ref, 1440) ELSE ref)
               ELSE AddMinutes(ref, 1440 * days_until_saturday)
        next_weekend == [day EXCEPT !.hour = 9, !.minute = 0, !.second = 0]
    IN [processed_text |-> SubIdiom(5, t, 1, <<"on", DateWord(next_weekend)>>),
        temporal_data |-> [due_date |-> StrftimeDate(next_weekend),
                           reminder_date |-> StrftimeDate(next_weekend)]]

_handle_weekend(t, ref) ==
    LET days_until_saturday == (5 - Weekday(ref.year, ref.month, ref.day)) % 7
        day == IF days_until_saturday = 0
               THEN (IF ref.hour >= 12 THEN AddMinutes(ref, 1440) ELSE ref)
               ELSE AddMinutes(ref, 1440 * days_until_saturday)
        next_weekend == [day EXCEPT !.hour = 9, !.minute = 0, !.second = 0]
    IN [processed_text |-> SubIdiom(5, t, 1, <<"on", DateWord(next_weekend)>>),
        temporal_data |-> [due_date |-> StrftimeDate(next_weekend),
                           reminder_date |-> StrftimeDate(next_weekend)]]

\* self.custom_patterns[pattern n](text, reference_time)
Handler(n, t, ref) ==
    CASE n = 1 -> _handle_end_of_hour(t, ref)
      [] n = 2 -> _handle_top_of_hour(t, ref)
      [] n = 3 -> _handle_end_of_day(t, ref)
      [] n = 4 -> _handle_end_of_tonight(t, ref)
      [] n = 5 -> _handle_weekend(t, ref)

(* dateparser.parse(span, settings) is a library outside the repository.    *)
(* The spans whose reading the test suite documents are parsed as it        *)
(* documents them; what the library does with any other span is the input   *)
(* parser: it rejects the span (None), accepts it, or raises.               *)
ClockOfLiteral(w) == CASE w = "3pm" -> 15 [] w = "4pm" -> 16 [] OTHER -> 0

KnownSpan(sp) ==
    sp \in {<<"tomorrow">>, <<"tomorrow", "at", "3pm">>, <<"tomorrow", "4pm">>,
            <<"3pm">>, <<"4pm">>}

\* <<>> is None, <<d>> the datetime d
DateParse(sp, ref, lib) ==
    IF KnownSpan(sp)
    THEN LET base == IF sp[1] = "tomorrow" THEN AddMinutes(ref, 1440) ELSE ref
         IN IF IsTimeLiteral(sp[Len(sp)])
            THEN <<[base EXCEPT !.hour = ClockOfLiteral(sp[Len(sp)]),
                                !.minute = 0, !.second = 0]>>
            ELSE <<base>>
    ELSE IF lib = "accepts"
    THEN <<[ref EXCEPT !.hour = 9, !.minute = 0, !.second = 0]>>
    ELSE <<>>

ParseRaises(sp, lib) == ~KnownSpan(sp) /\ lib = "raises"

\* int(before_match.group(1)) of re.search(r"(\d+)\s*minutes?\s*before", span):
\* -1 when the span does not match
BeforeMinutes(sp) ==
    LET ns == {j \in 1..Len(sp) :
                  /\ IsDigits(sp[j])
                  /\ NextWord(sp, j) # 0
                  /\ sp[NextWord(sp, j)] \in {"minute", "minutes"}
                  /\ NextWord(sp, NextWord(sp, j)) # 0
                  /\ sp[NextWord(sp, NextWord(sp, j))] = "before"}
    IN IF ns = {} THEN -1 ELSE (CASE sp[MinOf(ns)] = "30" -> 30 [] OTHER -> 0)

\* result after "Parse main date/time": parsed is dateparser's answer
DueFields(parsed, time_part) ==
    IF parsed = <<>> THEN EmptyDict
    ELSE IF time_part # NoPart
    THEN [due_date |-> StrftimeDate(parsed[1]),
          due_time |-> StrftimeTime(parsed[1])]
    ELSE [due_date |-> StrftimeDate(parsed[1])]

\* the "X minutes before" branch is taken
IsRelative(due, rp) ==
    rp # NoPart /\ BeforeMinutes(rp) >= 0 /\ "due_time" \in DOMAIN due

\* result after "Parse reminder if present"; absolute is dateparser's answer
\* for the reminder span
ReminderFields(due, parsed, rp, absolute) ==
    IF IsRelative(due, rp)
    THEN Put(Put(due, "reminder_date",
                 StrftimeDate(AddMinutes(parsed[1], 0 - BeforeMinutes(rp)))),
             "reminder_time",
             StrftimeTime(AddMinutes(parsed[1], 0 - BeforeMinutes(rp))))
    ELSE IF rp # NoPart /\ absolute # <<>>
    THEN Put(Put(due, "reminder_time", StrftimeTime(absolute[1])),
             "reminder_date", Get(due, "due_date", StrftimeDate(absolute[1])))
    ELSE due

CopyDueNever(rem, timezone) ==
    IF timezone # "" THEN Put(rem, "timezone_context", timezone) ELSE rem

\* "If no separate reminder, copy due time", then the timezone context
CopyDue(rem, timezone) ==
    LET copied == IF "due_time" \in DOMAIN rem /\ "reminder_time" \notin DOMAIN rem
                  THEN Put(Put(rem, "reminder_time", rem["due_time"]),
                           "reminder_date", rem["due_date"])
                  ELSE rem
    IN IF timezone # "" THEN Put(copied, "timezone_context", timezone)
       ELSE copied

\* the call returns: the dict built from dateparser's two answers
ParsedFields(time_parts, parsed, absolute, timezone) ==
    CopyDue(ReminderFields(DueFields(parsed, time_parts.time_part), parsed,
                           time_parts.reminder_part, absolute),
            timezone)

\* the call raises: one of the dateparser.parse calls it makes raises
ParseCallRaises(datetime_str, time_parts, parsed, lib) ==
    \/ ParseRaises(datetime_str, lib)
    \/ /\ time_parts.reminder_part # NoPart
       /\ ~IsRelative(DueFields(parsed, time_parts.time_part),
                      time_parts.reminder_part)
       /\ ParseRaises(time_parts.reminder_part, lib)

\* [status, result]: status "raised" when dateparser.parse raises; result is
\* the dict returned, the empty dict for None
_parse_with_dateparser(time_parts, ref, timezone, lib) ==
    IF ParseCallRaises(time_parts.date_part \o time_parts.time_part, time_parts,
                       DateParse(time_parts.date_part \o time_parts.time_part,
                                 ref, lib), lib)
    THEN [status |-> "raised", result |-> EmptyDict]
    ELSE [status |-> "returned",
          result |-> ParsedFields(time_parts,
                         DateParse(time_parts.date_part \o time_parts.time_part,
                                   ref, lib),
                         DateParse(time_parts.reminder_part, ref, lib),
                         timezone)]

\* the span part occurs in t from word i on: number of words it covers, else 0
PartLenAt(t, i, part) ==
    LET k == Len(part)
    IN IF /\ i + k - 1 <= Len(t)
          /\ \A j \in 2..(k - 1) : t[i + j - 1] = part[j]
          /\ IF k = 1 THEN t[i] = part[1]
             ELSE /\ t[i] # Gap
                  /\ StripSuffix(t[i], part[1]) \o part[1] = t[i]
                  /\ part[k] \o StripPrefix(t[i + k - 1], part[k]) = t[i + k - 1]
       THEN k ELSE 0

\* processed.replace(part, "")
RECURSIVE RemovePart(_, _, _)
RemovePart(t, i, part) ==
    IF i > Len(t) THEN <<>>
    ELSE IF PartLenAt(t, i, part) > 0
    THEN LET k == PartLenAt(t, i, part)
         IN <<(IF k = 1 THEN Gap
               ELSE StripSuffix(t[i], part[1]) \o StripPrefix(t[i + k - 1], part[k]))>>
            \o RemovePart(t, i + k, part)
    ELSE <<t[i]>> \o RemovePart(t, i + 1, part)

_build_processed_text(original, time_parts, temporal_data) ==
    LET replacements ==
            (IF "due_date" \in DOMAIN temporal_data
             THEN <<"on", DateWord(Strptime(temporal_data["due_date"]))>> ELSE <<>>)
            \o (IF "due_time" \in DOMAIN temporal_data
                THEN <<"at", TimeWord(temporal_data["due_time"][1],
                                      temporal_data["due_time"][2])>> ELSE <<>>)
        p1 == IF time_parts.date_part # NoPart
              THEN Strip(RemovePart(original, 1, time_parts.date_part))
              ELSE original
        p2 == IF time_parts.time_part # NoPart
              THEN Strip(RemovePart(p1, 1, time_parts.time_part))
              ELSE p1
    IN IF replacements = <<>> THEN original
       ELSE (IF p2 = <<>> THEN <<Gap>> ELSE p2)
               \o <<"[" \o Head(replacements)>>
               \o SubSeq(replacements, 2, Len(replacements) - 1)
               \o <<replacements[Len(replacements)] \o "]">>

\* "Try custom patterns first": the first pattern that matches decides
CustomResult(result0, t, ref, n) ==
    [result0 EXCEPT !.processed_text = Handler(n, t, ref).processed_text,
                    !.temporal_data = Handler(n, t, ref).temporal_data,
                    !.confidence = 9]

\* "if parsed_result:" with parsed_result the dict from _parse_with_dateparser
GenericResult(result0, t, time_parts, parsed_result) ==
    IF DOMAIN parsed_result # {}
    THEN [result0 EXCEPT
             !.processed_text = _build_processed_text(t, time_parts, parsed_result),
             !.temporal_data = parsed_result,
             !.confidence = IF "reminder_time" \in DOMAIN parsed_result
                            THEN 8 ELSE 7]
    ELSE result0

\* "Extract time-related parts" and what follows
GenericParse(result0, t, time_parts, pr) ==
    IF time_parts.date_part = NoPart /\ time_parts.time_part = NoPart
    THEN [status |-> "returned", result |-> result0]
    ELSE IF pr.status = "raised"
    THEN [status |-> "raised", result |-> result0]
    ELSE [status |-> "returned",
          result |-> GenericResult(result0, t, time_parts, pr.result)]

\* variant: the last pattern that matches decides
AfterTimezoneLastIdiom(result0, t, timezone, idioms, ref, lib) ==
    IF idioms # {}
    THEN [status |-> "returned",
          result |-> CustomResult(result0, t, ref, MaxOf(idioms))]
    ELSE GenericParse(result0, t, _extract_time_parts(t),
                      _parse_with_dateparser(_extract_time_parts(t), ref,
                                             timezone, lib))

\* preprocess from the custom patterns on: t is the text without its timezone
\* phrase, timezone the zone found ("" when none), idioms the custom patterns
\* that match t
AfterTimezone(result0, t, timezone, idioms, ref, lib) ==
    IF idioms # {}
    THEN [status |-> "returned",
          result |-> CustomResult(result0, t, ref, MinOf(idioms))]
    ELSE GenericParse(result0, t, _extract_time_parts(t),
                      _parse_with_dateparser(_extract_time_parts(t), ref,
                                             timezone, lib))

\* "Extract timezone if specified": timezone_info is _extract_timezone(text)
WithTimezone(txt, timezone_info, t, ref, lib) ==
    AfterTimezone([original_text |-> txt,
                   processed_text |-> txt,
                   temporal_data |-> IF DOMAIN timezone_info # {}
                                     THEN [timezone |-> timezone_info.timezone]
                                     ELSE EmptyDict,
                   confidence |-> 0],
                  t,
                  IF DOMAIN timezone_info # {} THEN timezone_info.timezone ELSE "",
                  {n \in 1..5 : IdiomMatches(n, t)}, ref, lib)

\* [status, result]; confidence is counted in tenths (9 is 0.9)
preprocess(txt, ref, lib) ==
    WithTimezone(txt, _extract_timezone(txt),
                 IF DOMAIN _extract_timezone(txt) # {}
                 THEN _extract_timezone(txt).cleaned_text ELSE txt,
                 ref, lib)

----------------------------------------------------------------------------
(* Inputs *)

CandidateDates ==
    << <<2025, 7, 10>>, <<2025, 3, 9>>, <<2025, 11, 2>>, <<2025, 12, 31>>,
       <<2025, 1, 1>>, <<2025, 11, 1>>, <<2025, 3, 8>>, <<2025, 2, 28>> >>

NumDates == 5

Dates ==
    {CandidateDates[i] : i \in 1..(IF NumDates < Len(CandidateDates)
                                   THEN NumDates ELSE Len(CandidateDates))}

\* wall-clock times on a half-hour grid
ClockTimes == {<<h, m>> : h \in 0..23, m \in {0, 30}}

ConvUsers == {"Colin", "colin", "Colin_10NetZero", "Joel", "Bryan", "Unknown"}

TaskUsers ==
    {"Colin", "colin aulds | 10netzero.com", "Colin Aulds | 10NetZero.com",
     "Colin_10NetZero", "Joel", "joel", "Unknown"}
TaskDates == {<<2025, 7, 10>>, <<2025, 11, 2>>}
TaskTimes == {<<0, 30>>, <<15, 0>>, <<16, 0>>, <<23, 30>>}
TaskContexts == {"assigner_local", "CST"}

\* the time string "15", which is not of the form HH:MM
MalformedTime == <<15>>

\* a dict with at most the key k
Opt(k, Vals) == {EmptyDict} \cup {[x \in {k} |-> v] : v \in Vals}

Merge(d1, d2) ==
    [x \in DOMAIN d1 \cup DOMAIN d2 |-> IF x \in DOMAIN d1 THEN d1[x] ELSE d2[x]]

NoDatetime == [year |-> 0, month |-> 0, day |-> 0,
               hour |-> 0, minute |-> 0, second |-> 0]
NoResult == <<>>
NoCalls == <<>>

\* the tables the calls share: self.custom_patterns (the handlers in dict
\* order, numbered as in Handler) and self.city_to_tz of the TemporalProcessor
\* instance, USER_TIMEZONES and TELEGRAM_USER_MAPPING of timezone_config
ConstructedTables ==
    [custom_patterns |-> <<1, 2, 3, 4, 5>>,
     city_to_tz |-> city_to_tz,
     USER_TIMEZONES |-> USER_TIMEZONES,
     TELEGRAM_USER_MAPPING |-> TELEGRAM_USER_MAPPING]
NoPrompt == [form |-> "none", context |-> <<>>, task |-> <<>>, hints |-> EmptyDict]

\* phrases of task descriptions; a text is a run of at most MaxPhrases phrases
Phrases ==
    << <<"end", "of", "the", "hour">>, <<"top", "of", "hour">>,
       <<"end", "of", "day">>, <<"end", "of", "tonight">>,
       <<"this", "weekend">>, <<"CST">>, <<"pst">>, <<"houston", "time">>,
       <<"tomorrow">>, <<"at", "3pm">>, <<"tomorrow", "at", "3pm">>,
       <<"remind", "Joel">>, <<"remind", "Joel", "30", "minutes", "before">>,
       <<"check", "batteries">>, <<"the", "4pm", "meeting">> >>

MaxPhrases == 2

RECURSIVE TextsOf(_)
TextsOf(n) ==
    IF n = 0 THEN {<<>>}
    ELSE TextsOf(n - 1)
         \cup {s \o Phrases[i] : s \in TextsOf(n - 1), i \in 1..Len(Phrases)}

Texts == TextsOf(MaxPhrases)

Datetime(y, mo, d, h, mi, s) ==
    [year |-> y, month |-> mo, day |-> d, hour |-> h, minute |-> mi, second |-> s]

\* 2025-07-10 is a Thursday, 2025-07-12 a Saturday, 2025-07-13 a Sunday
RefTimes ==
    {Datetime(2025, 7, 10, 14, 30, 0), Datetime(2025, 7, 10, 14, 59, 0),
     Datetime(2025, 7, 10, 14, 0, 0),
     Datetime(2025, 7, 10, 23, 59, 30), Datetime(2025, 7, 12, 11, 59, 0),
     Datetime(2025, 7, 12, 12, 0, 0), Datetime(2025, 7, 13, 10, 0, 0),
     Datetime(2025, 12, 31, 23, 30, 0)}

Parsers == {"rejects", "accepts", "raises"}

----------------------------------------------------------------------------
(* The calls *)

InitConvert ==
    /\ op = "convert"
    /\ dt \in {Strptime(d) : d \in Dates}
    /\ time_str \in ClockTimes \cup {EmptyStr, None, MalformedTime}
    /\ from_user \in ConvUsers
    /\ to_user \in ConvUsers
    /\ task_in = EmptyDict
    /\ assigner = ""

InitTask ==
    /\ op = "process_task"
    /\ \E a \in Opt("assignee", TaskUsers),
          dd \in Opt("due_date", TaskDates),
          dtm \in Opt("due_time", TaskTimes \cup {EmptyStr, MalformedTime}),
          rd \in Opt("reminder_date", TaskDates \cup {EmptyStr}),
          rt \in Opt("reminder_time", TaskTimes \cup {EmptyStr, MalformedTime}),
          tc \in Opt("timezone_context", TaskContexts) :
         task_in = Merge([task |-> "Check the backyard for oil",
                          status |-> "pending"],
                     Merge(a, Merge(dd, Merge(dtm, Merge(rd, Merge(rt, tc))))))
    /\ assigner \in TaskUsers
    /\ dt = NoDatetime
    /\ time_str = EmptyStr
    /\ from_user = ""
    /\ to_user = ""

Init ==
    /\ pc = "call"
    /\ InitConvert \/ InitTask
    /\ conv_result = NoResult
    /\ back_result = NoResult
    /\ task_json = task_in
    /\ text = <<>>
    /\ reference_time = NoDatetime
    /\ parser = "rejects"
    /\ result = EmptyDict
    /\ prompt = NoPrompt
    /\ calls = NoCalls
    /\ tables = ConstructedTables

\* convert_time_between_users(dt, time_str, from_user, to_user)
Convert ==
    /\ pc = "call"
    /\ op = "convert"
    /\ IF ConvertRaises(time_str, FALSE)
       THEN pc' = "raised" /\ conv_result' = conv_result
       ELSE /\ pc' = "returned"
            /\ conv_result' = convert_time_between_users(dt, time_str, from_user,
                                                         to_user, FALSE)
    /\ UNCHANGED <<op, dt, time_str, from_user, to_user, back_result,
                   task_in, task_json, assigner,
                   text, reference_time, parser, result, prompt,
                   calls, tables>>

\* the returned date and time converted in the opposite direction
ConvertBack ==
    /\ pc = "returned"
    /\ op = "convert"
    /\ back_result' = convert_time_between_users(Strptime(conv_result[1]),
                          conv_result[2], to_user, from_user, FALSE)
    /\ pc' = "back"
    /\ UNCHANGED <<op, dt, time_str, from_user, to_user, conv_result,
                   task_in, task_json, assigner,
                   text, reference_time, parser, result, prompt,
                   calls, tables>>

\* process_task_with_timezones(task_json, assigner)
ProcessTask ==
    /\ pc = "call"
    /\ op = "process_task"
    /\ LET r == process_task_with_timezones(task_json, assigner)
       IN /\ task_json' = r.task
          /\ pc' = r.status
    /\ UNCHANGED <<op, dt, time_str, from_user, to_user, conv_result,
                   back_result, task_in, assigner,
                   text, reference_time, parser, result, prompt,
                   calls, tables>>

Next == Convert \/ ConvertBack \/ ProcessTask

Spec == Init /\ [][Next]_vars

InitPreprocess ==
    /\ pc = "call"
    /\ op = "preprocess"
    /\ text \in Texts
    /\ reference_time \in RefTimes
    /\ parser \in Parsers
    /\ result = EmptyDict
    /\ prompt = NoPrompt
    /\ calls = NoCalls
    /\ tables = ConstructedTables
    /\ dt = NoDatetime
    /\ time_str = EmptyStr
    /\ from_user = ""
    /\ to_user = ""
    /\ conv_result = NoResult
    /\ back_result = NoResult
    /\ task_in = EmptyDict
    /\ task_json = EmptyDict
    /\ assigner = ""

\* TemporalProcessor().preprocess(text, reference_time)
Preprocess ==
    /\ pc = "call"
    /\ op = "preprocess"
    /\ LET r == preprocess(text, reference_time, parser)
       IN /\ pc' = r.status
          /\ result' = IF r.status = "returned" THEN r.result ELSE result
    /\ UNCHANGED <<op, dt, time_str, from_user, to_user, conv_result,
                   back_result, task_in, task_json, assigner,
                   text, reference_time, parser, prompt, calls, tables>>

NextPreprocess == Preprocess

SpecPreprocess == InitPreprocess /\ [][NextPreprocess]_vars

----------------------------------------------------------------------------
(* scripts/unified_parser.py: parse_task *)

(* The prompt is the record of its lines: form "hints" is the list of the     *)
(* context line, the "Task: ..." line and the labelled lines; form "plain" is *)
(* the context line followed by the input text.                               *)

HintLabels ==
    {"Pre-parsed due date", "Pre-parsed due time", "Pre-parsed reminder time",
     "Detected timezone"}

\* the temporal_data key a labelled line is written from
HintField(label) ==
    CASE label = "Pre-parsed due date" -> "due_date"
      [] label = "Pre-parsed due time" -> "due_time"
      [] label = "Pre-parsed reminder time" -> "reminder_time"
      [] label = "Detected timezone" -> "timezone_context"

\* the labelled lines of the high-confidence prompt (lines 216-230)
HintLines(temporal_info) ==
    [l \in {h \in HintLabels :
               /\ HintField(h) \in DOMAIN temporal_info
               /\ h = "Pre-parsed reminder time"
                  => temporal_info["reminder_time"]
                         # Get(temporal_info, "due_time", None)}
       |-> temporal_info[HintField(l)]]

\* variant: the labelled lines are written whatever the confidence is
BuildPromptAnyConfidence(preprocessed, input_text, asg, now) ==
    IF DOMAIN preprocessed.temporal_data # {}
    THEN [form |-> "hints", context |-> <<StrftimeTime(now), StrftimeDate(now), asg>>,
          task |-> preprocessed.processed_text,
          hints |-> HintLines(preprocessed.temporal_data)]
    ELSE [form |-> "plain", context |-> <<StrftimeTime(now), StrftimeDate(now), asg>>,
          task |-> input_text, hints |-> EmptyDict]

\* task_input (lines 207-235)
BuildPrompt(preprocessed, input_text, asg, now) ==
    IF preprocessed.confidence >= 7 /\ DOMAIN preprocessed.temporal_data # {}
    THEN [form |-> "hints", context |-> <<StrftimeTime(now), StrftimeDate(now), asg>>,
          task |-> preprocessed.processed_text,
          hints |-> HintLines(preprocessed.temporal_data)]
    ELSE [form |-> "plain", context |-> <<StrftimeTime(now), StrftimeDate(now), asg>>,
          task |-> input_text, hints |-> EmptyDict]

\* a reply of the language model that follows the labelled lines: the due
\* pair and the timezone are those of the prompt, the reminder is the one of
\* the prompt or else the due pair
ReplyFollowing(pr) ==
    LET h == pr.hints
        base == [assignee |-> "Joel", task |-> "Check batteries",
                 status |-> "pending"]
        due == Merge(IF "Pre-parsed due date" \in DOMAIN h
                     THEN [due_date |-> h["Pre-parsed due date"]] ELSE EmptyDict,
                     IF "Pre-parsed due time" \in DOMAIN h
                     THEN [due_time |-> h["Pre-parsed due time"]] ELSE EmptyDict)
        rem == Merge(IF "Pre-parsed due date" \in DOMAIN h
                     THEN [reminder_date |-> h["Pre-parsed due date"]]
                     ELSE EmptyDict,
                     IF "Pre-parsed reminder time" \in DOMAIN h
                     THEN [reminder_time |-> h["Pre-parsed reminder time"]]
                     ELSE IF "Pre-parsed due time" \in DOMAIN h
                     THEN [reminder_time |-> h["Pre-parsed due time"]]
                     ELSE EmptyDict)
        tz == IF "Detected timezone" \in DOMAIN h
              THEN [timezone_context |-> h["Detected timezone"]]
              ELSE [timezone_context |-> "assigner_local"]
    IN Merge(base, Merge(due, Merge(rem, tz)))

\* a reply with the model's own reading of the text
ReplyOwn ==
    [assignee |-> "Joel", task |-> "Check batteries", status |-> "pending",
     due_date |-> <<2025, 7, 11>>, due_time |-> <<16, 0>>,
     reminder_date |-> <<2025, 7, 11>>, reminder_time |-> <<15, 0>>]

\* what parse_with_ollama / parse_with_openai can return for a prompt: the
\* JSON object of the reply (None, the empty dict here, when the call fails)
LlmReplies(pr) ==
    {EmptyDict, ReplyFollowing(pr), ReplyOwn,
     Put(ReplyOwn, "timezone_context", "assigner_local"),
     Put(ReplyOwn, "timezone_context", "EST")}

ParseTaskAssigners == {"Colin", "Joel"}

\* datetime.now(assigner_tz) at line 193: a Thursday afternoon, a Saturday noon
ParseTaskNow ==
    {Datetime(2025, 7, 10, 14, 30, 0), Datetime(2025, 7, 12, 12, 0, 0)}

\* datetime.now(timezone.utc).strftime("%Y-%m-%dT%H:%M") at line 266
CreatedAt == "now"

InitParseTask ==
    /\ pc = "call"
    /\ op = "parse_task"
    /\ text \in Texts
    /\ reference_time \in ParseTaskNow
    /\ parser \in Parsers
    /\ assigner \in ParseTaskAssigners
    /\ result = EmptyDict
    /\ prompt = NoPrompt
    /\ calls = NoCalls
    /\ tables = ConstructedTables
    /\ dt = NoDatetime
    /\ time_str = EmptyStr
    /\ from_user = ""
    /\ to_user = ""
    /\ conv_result = NoResult
    /\ back_result = NoResult
    /\ task_in = EmptyDict
    /\ task_json = EmptyDict

\* parse_task up to the request to the language model (lines 185-238)
ParseTaskPrompt ==
    /\ pc = "call"
    /\ op = "parse_task"
    /\ LET r == preprocess(text, reference_time, parser)
       IN IF r.status = "returned"
          THEN /\ pc' = "prompted"
               /\ result' = r.result
               /\ prompt' = BuildPrompt(r.result, text, assigner, reference_time)
          ELSE /\ pc' = "raised"
               /\ UNCHANGED <<result, prompt>>
    /\ UNCHANGED <<op, dt, time_str, from_user, to_user, conv_result,
                   back_result, task_in, task_json, assigner,
                   text, reference_time, parser, calls, tables>>

\* the reply of the language model (lines 240-263); task_in keeps the reply
ParseTaskReply ==
    /\ pc = "prompted"
    /\ op = "parse_task"
    /\ \E reply \in LlmReplies(prompt) :
          IF reply = EmptyDict
          THEN /\ pc' = "failed"
               /\ UNCHANGED <<task_in, task_json>>
          ELSE /\ pc' = "replied"
               /\ task_in' = reply
               /\ task_json' = reply
    /\ UNCHANGED <<op, dt, time_str, from_user, to_user, conv_result,
                   back_result, assigner,
                   text, reference_time, parser, result, prompt,
                   calls, tables>>

\* the post-processing of the reply (lines 265-285)
ParseTaskFinish ==
    /\ pc = "replied"
    /\ op = "parse_task"
    /\ LET r == process_task_with_timezones(
                    Put(task_json, "created_at", CreatedAt), assigner)
       IN IF r.status = "returned"
          THEN /\ pc' = "returned"
               /\ task_json' = Put(Put(Put(r.task, "original_prompt", text),
                                       "corrections_history", EmptyStr),
                                   "_performance", "timings")
          ELSE /\ pc' = "raised"
               /\ task_json' = r.task
    /\ UNCHANGED <<op, dt, time_str, from_user, to_user, conv_result,
                   back_result, task_in, assigner,
                   text, reference_time, parser, result, prompt,
                   calls, tables>>

NextParseTask == ParseTaskPrompt \/ ParseTaskReply \/ ParseTaskFinish

SpecParseTask == InitParseTask /\ [][NextParseTask]_vars

----------------------------------------------------------------------------
(* Concurrent calls *)

(* NumCalls request-handling tasks run one call each, on distinct inputs; the *)
(* preprocess calls share one TemporalProcessor instance.  A call is cut at  *)
(* its reads of the shared tables and at its writes of its own task dict,     *)
(* and the steps of different calls interleave in any order.                  *)

NumCalls == 2

Procs == 1..NumCalls

ConcurrentTexts ==
    {<<"end", "of", "day", "this", "weekend">>, <<"this", "weekend">>,
     <<"top", "of", "hour">>, <<"tomorrow", "at", "3pm", "houston", "time">>,
     <<"remind", "Joel", "tomorrow">>, <<"check", "batteries">>}

ConcurrentTasks ==
    {[assignee |-> "Joel", task |-> "Check the backyard for oil",
      due_date |-> <<2025, 7, 10>>, due_time |-> <<16, 0>>,
      reminder_date |-> <<2025, 7, 10>>, reminder_time |-> <<15, 0>>],
     [assignee |-> "Joel", task |-> "Restart servers",
      due_date |-> <<2025, 7, 10>>, due_time |-> <<23, 30>>,
      reminder_date |-> <<2025, 7, 10>>, reminder_time |-> MalformedTime],
     [assignee |-> "colin", task |-> "Check something",
      due_date |-> <<2025, 7, 10>>, due_time |-> <<16, 0>>],
     [assignee |-> "Joel", task |-> "Call the site",
      due_date |-> <<2025, 7, 10>>, due_time |-> <<15, 0>>,
      timezone_context |-> "CST"]}

\* the arguments of one call
ConcurrentInputs ==
    {[kind |-> "preprocess", text |-> t,
      ref |-> Datetime(2025, 7, 10, 14, 30, 0), lib |-> l,
      task |-> EmptyDict, assigner |-> ""] :
         t \in ConcurrentTexts, l \in {"accepts", "raises"}}
    \cup {[kind |-> "process_task", text |-> <<>>, ref |-> NoDatetime,
           lib |-> "", task |-> k, assigner |-> "Colin"] : k \in ConcurrentTasks}

\* a call that has not started: arg is the argument record, task the task
\* dict the call mutates, local and out its local variables and its result
NewCall(arg) ==
    [arg |-> arg, pc |-> "call", task |-> arg.task, local |-> EmptyDict,
     out |-> EmptyDict]

InitConcurrent ==
    /\ op = "concurrent"
    /\ pc = "call"
    /\ \E ins \in [Procs -> ConcurrentInputs] :
          /\ \A i, j \in Procs : i # j => ins[i] # ins[j]
          /\ calls = [i \in Procs |-> NewCall(ins[i])]
    /\ tables = ConstructedTables
    /\ text = <<>>
    /\ reference_time = NoDatetime
    /\ parser = "rejects"
    /\ result = EmptyDict
    /\ prompt = NoPrompt
    /\ dt = NoDatetime
    /\ time_str = EmptyStr
    /\ from_user = ""
    /\ to_user = ""
    /\ conv_result = NoResult
    /\ back_result = NoResult
    /\ task_in = EmptyDict
    /\ task_json = EmptyDict
    /\ assigner = ""

\* the result dict of lines 74-85
InitialResult(txt, timezone_info) ==
    [original_text |-> txt, processed_text |-> txt,
     temporal_data |-> IF DOMAIN timezone_info # {}
                       THEN [timezone |-> timezone_info.timezone]
                       ELSE EmptyDict,
     confidence |-> 0]

\* the first pattern of the dict, in its order, that the text matches; 0 when
\* none does (lines 88-89)
FirstIdiomIn(patterns, t) ==
    LET idx == {i \in 1..Len(patterns) : IdiomMatches(patterns[i], t)}
    IN IF idx = {} THEN 0 ELSE patterns[MinOf(idx)]

\* variant: the pattern that matched is moved to the front of the dict
PatternsMovedToFront(patterns, n) ==
    <<n>> \o SelectSeq(patterns, LAMBDA x : x # n)

\* self.custom_patterns after the loop of lines 88-94, which only reads it
PatternsAfterMatch(patterns, n) == patterns

\* the zone of a user, looked up in the shared roster (lines 64-69)
ZoneIn(roster, username) ==
    Get(roster, normalize_username(username), DEFAULT_TIMEZONE)

\* the frame of a step of call p
OnlyCall(p, c) ==
    /\ calls' = [calls EXCEPT ![p] = c]
    /\ UNCHANGED <<pc, op, dt, time_str, from_user, to_user, conv_result,
                   back_result, task_in, task_json, assigner,
                   text, reference_time, parser, result, prompt>>

\* preprocess, lines 74-85: the timezone is extracted with self.city_to_tz
PreTimezone(p) ==
    LET c == calls[p]
        timezone_info == _extract_timezone(c.arg.text)
    IN /\ c.arg.kind = "preprocess" /\ c.pc = "call"
       /\ OnlyCall(p, [c EXCEPT
              !.pc = "patterns",
              !.local = [timezone |-> IF DOMAIN timezone_info # {}
                                      THEN timezone_info.timezone ELSE "",
                         t |-> IF DOMAIN timezone_info # {}
                               THEN timezone_info.cleaned_text ELSE c.arg.text],
              !.out = InitialResult(c.arg.text, timezone_info)])
       /\ UNCHANGED tables

\* preprocess, lines 87-94: the loop over self.custom_patterns
PrePatterns(p) ==
    LET c == calls[p]
        n == FirstIdiomIn(tables.custom_patterns, c.local.t)
    IN /\ c.arg.kind = "preprocess" /\ c.pc = "patterns"
       /\ IF n # 0
          THEN /\ OnlyCall(p, [c EXCEPT
                      !.pc = "returned",
                      !.out = CustomResult(c.out, c.local.t, c.arg.ref, n)])
               /\ tables' = [tables EXCEPT
                      !.custom_patterns = PatternsAfterMatch(@, n)]
          ELSE /\ OnlyCall(p, [c EXCEPT !.pc = "generic"])
               /\ UNCHANGED tables

\* preprocess, lines 96-116
PreGeneric(p) ==
    LET c == calls[p]
        time_parts == _extract_time_parts(c.local.t)
        g == GenericParse(c.out, c.local.t, time_parts,
                 _parse_with_dateparser(time_parts, c.arg.ref,
                                        c.local.timezone, c.arg.lib))
    IN /\ c.arg.kind = "preprocess" /\ c.pc = "generic"
       /\ OnlyCall(p, [c EXCEPT !.pc = g.status, !.out = g.result])
       /\ UNCHANGED tables

\* process_task_with_timezones, lines 101-147: the zones are read from the
\* roster and the two branches that do not convert return
TaskZones(p) ==
    LET c == calls[p]
        asg == c.arg.assigner
        assigner_tz == ZoneIn(tables.USER_TIMEZONES, asg)
        assignee == Get(c.task, "assignee", asg)
        assignee_tz == ZoneIn(tables.USER_TIMEZONES, assignee)
        timezone_context == Get(c.task, "timezone_context", "assigner_local")
    IN /\ c.arg.kind = "process_task" /\ c.pc = "call"
       /\ OnlyCall(p,
              IF ContextIsExplicit(timezone_context)
              THEN [c EXCEPT !.pc = "returned",
                             !.task = Put(c.task, "timezone_info",
                                          TimezoneInfoWithContext(timezone_context,
                                              assigner_tz, assignee_tz))]
              ELSE IF SamePerson(asg, assignee)
              THEN [c EXCEPT !.pc = "returned",
                             !.task = Put(c.task, "timezone_info",
                                          TimezoneInfo(assigner_tz, assignee_tz,
                                                       FALSE))]
              ELSE [c EXCEPT !.pc = "converting",
                             !.local = [assignee |-> assignee,
                                        assigner_tz |-> assigner_tz,
                                        assignee_tz |-> assignee_tz]])
       /\ UNCHANGED tables

\* process_task_with_timezones, lines 149-165: the due pair is written
TaskDue(p) ==
    LET c == calls[p]
        asg == c.arg.assigner
    IN /\ c.arg.kind = "process_task" /\ c.pc = "converting"
       /\ OnlyCall(p,
              IF "due_date" \notin DOMAIN c.task
                 \/ DueRaises(c.task, asg, c.local.assignee)
              THEN [c EXCEPT !.pc = "raised"]
              ELSE [c EXCEPT !.pc = "due",
                             !.task = ConvertDue(c.task, asg, c.local.assignee)])
       /\ UNCHANGED tables

\* process_task_with_timezones, lines 167-195: the reminder pair and
\* timezone_info are written
TaskReminder(p) ==
    LET c == calls[p]
        asg == c.arg.assigner
    IN /\ c.arg.kind = "process_task" /\ c.pc = "due"
       /\ OnlyCall(p,
              IF ReminderRaises(c.task, asg, c.local.assignee)
              THEN [c EXCEPT !.pc = "raised"]
              ELSE [c EXCEPT !.pc = "returned",
                             !.task = Put(ConvertReminder(c.task, asg,
                                                          c.local.assignee),
                                          "timezone_info",
                                          TimezoneInfo(c.local.assigner_tz,
                                                       c.local.assignee_tz,
                                                       TRUE))])
       /\ UNCHANGED tables

NextConcurrent ==
    \E p \in Procs :
        \/ PreTimezone(p)
        \/ PrePatterns(p)
        \/ PreGeneric(p)
        \/ TaskZones(p)
        \/ TaskDue(p)
        \/ TaskReminder(p)

SpecConcurrent == InitConcurrent /\ [][NextConcurrent]_vars

----------------------------------------------------------------------------
(* Properties of process_task_with_timezones *)

\* the key k is present in both dicts with one value, or absent in both
SameField(d1, d2, k) ==
    /\ (k \in DOMAIN d1) <=> (k \in DOMAIN d2)
    /\ k \in DOMAIN d1 => d1[k] = d2[k]

TemporalUnchanged ==
    \A k \in {"due_date", "due_time", "reminder_date", "reminder_time"} :
        SameField(task_in, task_json, k)

TaskDone == op = "process_task" /\ pc # "call"

InAssignee == Get(task_in, "assignee", assigner)

\* C1: a task whose timezone_context is present and is not "assigner_local" is
\* returned with its due and reminder fields unchanged, whoever assigner and
\* assignee are, and timezone_info = {times_are_in: timezone_context,
\* assigner_tz, assignee_tz, converted: false}.
TheoremC1 ==
    (TaskDone /\ "timezone_context" \in DOMAIN task_in
              /\ task_in["timezone_context"] # "assigner_local")
    => /\ pc = "returned"
       /\ TemporalUnchanged
       /\ "timezone_info" \in DOMAIN task_json
       /\ task_json["timezone_info"] =
              [times_are_in |-> task_in["timezone_context"],
               assigner_tz |-> get_user_timezone(assigner),
               assignee_tz |-> get_user_timezone(InAssignee),
               converted |-> FALSE]

WitnessC1 ==
    /\ TaskDone /\ pc = "returned"
    /\ Get(task_in, "timezone_context", "assigner_local") = "CST"
    /\ assigner = "Colin" /\ InAssignee = "Joel"
    /\ Get(task_in, "due_date", EmptyStr) = <<2025, 7, 10>>
    /\ Get(task_in, "due_time", EmptyStr) = <<16, 0>>
    /\ Get(task_json, "due_time", EmptyStr) = <<16, 0>>

TheoremC3 ==
    (TaskDone /\ Get(task_in, "timezone_context", "assigner_local") = "assigner_local"
              /\ normalize_username(assigner) # normalize_username(InAssignee)
              /\ "due_date" \in DOMAIN task_in
              /\ ~DueRaises(task_in, assigner, InAssignee)
              /\ ~ReminderRaises(task_in, assigner, InAssignee))
    => LET due == convert_time_between_users(Strptime(task_in["due_date"]),
                      Get(task_in, "due_time", EmptyStr), assigner, InAssignee, FALSE)
           rd == Get(task_in, "reminder_date", EmptyStr)
           rt == Get(task_in, "reminder_time", EmptyStr)
       IN /\ pc = "returned"
          /\ task_json["due_date"] = due[1]
          /\ Get(task_json, "due_time", EmptyStr) = due[2]
          /\ IF Truthy(rd) /\ Truthy(rt)
             THEN LET rem == convert_time_between_users(Strptime(rd), rt,
                                 assigner, InAssignee, FALSE)
                  IN /\ Get(task_json, "reminder_date", EmptyStr) = rem[1]
                     /\ Get(task_json, "reminder_time", EmptyStr) = rem[2]
             ELSE /\ SameField(task_in, task_json, "reminder_date")
                  /\ SameField(task_in, task_json, "reminder_time")
          /\ "timezone_info" \in DOMAIN task_json
          /\ task_json["timezone_info"] =
                 [assigner_tz |-> get_user_timezone(assigner),
                  assignee_tz |-> get_user_timezone(InAssignee),
                  converted |-> TRUE]
          /\ (/\ assigner = "Colin" /\ InAssignee = "Joel"
              /\ task_in["due_date"] = <<2025, 7, 10>>
              /\ Get(task_in, "due_time", EmptyStr) = <<16, 0>>
              /\ rd = <<2025, 7, 10>> /\ rt = <<15, 0>>)
             => /\ task_json["due_date"] = <<2025, 7, 10>>
                /\ task_json["due_time"] = <<18, 0>>
                /\ task_json["reminder_date"] = <<2025, 7, 10>>
                /\ task_json["reminder_time"] = <<17, 0>>

WitnessC3 ==
    /\ TaskDone /\ pc = "returned"
    /\ "timezone_context" \notin DOMAIN task_in
    /\ assigner = "Colin" /\ InAssignee = "Joel"
    /\ Get(task_in, "due_date", EmptyStr) = <<2025, 7, 10>>
    /\ Get(task_in, "due_time", EmptyStr) = <<16, 0>>
    /\ Get(task_in, "reminder_date", EmptyStr) = <<2025, 7, 10>>
    /\ Get(task_in, "reminder_time", EmptyStr) = <<15, 0>>
    /\ Get(task_json, "due_time", EmptyStr) = <<18, 0>>
    /\ Get(task_json, "reminder_time", EmptyStr) = <<17, 0>>
    /\ task_json["timezone_info"].converted = TRUE

----------------------------------------------------------------------------
(* Properties of convert_time_between_users *)

ConvertDone == op = "convert" /\ pc \in {"returned", "back"}

FromTz == get_user_timezone(from_user)
ToTz == get_user_timezone(to_user)

\* wall-clock minute of a date string and a time string
WallMinute(date, time) ==
    ToMinutes([Strptime(date) EXCEPT !.hour = time[1], !.minute = time[2]])

InMinute == WallMinute(StrftimeDate(dt), time_str)
OutMinute == WallMinute(conv_result[1], conv_result[2])

\* the wall clock that zone tz shows at the UTC minute u
WallOfInstant(tz, u) == u + UtcOffsetOfInstant(tz, u)

\* the offsets zone tz ever uses
Offsets(tz) == {StdOffset(tz)} \cup (IF HasDst(tz) THEN {StdOffset(tz) + 60} ELSE {})

\* the offset of zone tz on a day of month mo, for months without a transition
SeasonOffset(tz, mo) ==
    IF HasDst(tz) /\ mo \in 4..10 THEN StdOffset(tz) + 60 ELSE StdOffset(tz)

\* C4: when the input date and HH:MM time denote an instant in from_user's
\* zone, the returned date and time are the wall clock of that instant in
\* to_user's zone; each zone's offset is the one in effect on that date
\* (daylight offset in April..October, standard offset in December..February),
\* and the returned date moves when the conversion crosses midnight.
TheoremC4 ==
    (ConvertDone /\ Truthy(time_str))
    => /\ (\E o \in Offsets(FromTz) : WallOfInstant(FromTz, InMinute - o) = InMinute)
          => \E o \in Offsets(FromTz) :
                 /\ WallOfInstant(FromTz, InMinute - o) = InMinute
                 /\ OutMinute = WallOfInstant(ToTz, InMinute - o)
       /\ dt.month \in (4..10) \cup {12, 1, 2}
          => OutMinute - InMinute =
                 SeasonOffset(ToTz, dt.month) - SeasonOffset(FromTz, dt.month)
       /\ (from_user = "Colin" /\ to_user = "Joel" /\ dt.year = 2025)
          => /\ (dt.month = 7 /\ dt.day = 10 /\ time_str = <<16, 0>>)
                => conv_result = << <<2025, 7, 10>>, <<18, 0>> >>
             /\ (dt.month = 12 /\ dt.day = 31 /\ time_str = <<23, 30>>)
                => conv_result = << <<2026, 1, 1>>, <<1, 30>> >>

WitnessC4 ==
    /\ ConvertDone
    /\ from_user = "Colin" /\ to_user = "Joel"
    /\ StrftimeDate(dt) = <<2025, 12, 31>> /\ time_str = <<23, 30>>
    /\ conv_result = << <<2026, 1, 1>>, <<1, 30>> >>

\* a wall-clock minute that zone tz skips (spring forward) or shows twice
\* (fall back) in the year of the minute
Skipped(tz, w) ==
    LET y == FromMinutes(w, 0).year
    IN HasDst(tz) /\ w >= DstStartWall(y) /\ w < DstStartWall(y) + 60

Repeated(tz, w) ==
    LET y == FromMinutes(w, 0).year
    IN HasDst(tz) /\ w >= DstEndWall(y) - 60 /\ w < DstEndWall(y)

\* the UTC minute u is a transition instant of zone tz
TransitionInstant(tz, u) ==
    LET y == FromMinutes(u, 0).year
    IN HasDst(tz) /\ u \in {DstStartWall(y) - StdOffset(tz),
                           DstEndWall(y) - (StdOffset(tz) + 60)}

InInstant == InMinute - UtcOffsetOfWall(FromTz, [dt EXCEPT !.hour = time_str[1],
                                                          !.minute = time_str[2]])

RoundTrips == back_result = <<StrftimeDate(dt), time_str>>

\* C5 as stated: converting A -> B and the result B -> A returns the original
\* date and time whenever the input does not land on a DST transition: its
\* instant is no transition instant of either zone and its wall-clock time is
\* neither skipped nor repeated in A's zone.
RoundTripOffTransitionInstant ==
    (op = "convert" /\ pc = "back" /\ Truthy(time_str)
       /\ ~TransitionInstant(FromTz, InInstant)
       /\ ~TransitionInstant(ToTz, InInstant)
       /\ ~Skipped(FromTz, InMinute)
       /\ ~Repeated(FromTz, InMinute))
    => RoundTrips

\* C5 (amended): converting A -> B and the result B -> A returns the original
\* date and time whenever the input is not a skipped wall-clock time of A's
\* zone and the converted time is not a repeated wall-clock time of B's zone.
TheoremC5 ==
    (op = "convert" /\ pc = "back" /\ Truthy(time_str)
       /\ ~Skipped(FromTz, InMinute)
       /\ ~Repeated(ToTz, OutMinute))
    => RoundTrips

WitnessC5 ==
    /\ op = "convert" /\ pc = "back"
    /\ from_user = "Colin" /\ to_user = "Joel"
    /\ StrftimeDate(dt) = <<2025, 3, 9>> /\ time_str = <<0, 30>>
    /\ conv_result = << <<2025, 3, 9>>, <<3, 30>> >>
    /\ back_result = << <<2025, 3, 9>>, <<0, 30>> >>

\* C6: when from_user and to_user normalize to one canonical username the
\* returned date and time equal the input date and time.
TheoremC6 ==
    (ConvertDone /\ Truthy(time_str)
       /\ normalize_username(from_user) = normalize_username(to_user))
    => conv_result = <<StrftimeDate(dt), time_str>>

WitnessC6 ==
    /\ ConvertDone
    /\ from_user = "colin" /\ to_user = "Colin_10NetZero"
    /\ StrftimeDate(dt) = <<2025, 3, 9>> /\ time_str = <<2, 30>>
    /\ conv_result = << <<2025, 3, 9>>, <<2, 30>> >>

\* C7: when the time argument is None or empty the call returns the input
\* date and an empty time string, for every pair of users.
TheoremC7 ==
    (ConvertDone /\ time_str \in {None, EmptyStr})
    => conv_result = << <<dt.year, dt.month, dt.day>>, EmptyStr >>

WitnessC7 ==
    /\ ConvertDone
    /\ time_str = None
    /\ from_user = "Colin" /\ to_user = "Unknown"
    /\ conv_result = << <<2025, 12, 31>>, EmptyStr >>

\* raw identifiers that name a roster member
RosterIdentifiers ==
    {"Colin", "colin", "COLIN", "Joel", "joel", "Bryan", "bryan",
     "Colin_10NetZero", "colin_10netzero", "colin aulds | 10netzero.com",
     "Colin Aulds | 10NetZero.com"}

\* C8: a username outside the roster gets the UTC zone, no call fails
\* because of it, and a conversion from or to it uses offset 0 on its side.
TheoremC8 ==
    /\ \A n \in {from_user, to_user, assigner, InAssignee} :
           n \notin RosterIdentifiers => get_user_timezone(n) = "UTC"
    /\ (ConvertDone /\ Truthy(time_str) /\ from_user \notin RosterIdentifiers
          /\ to_user \in RosterIdentifiers)
       => /\ OutMinute \in {InMinute + o : o \in Offsets(ToTz)}
          /\ WallOfInstant(ToTz, InMinute) = OutMinute
    /\ (ConvertDone /\ Truthy(time_str) /\ to_user \notin RosterIdentifiers)
       => /\ from_user \notin RosterIdentifiers => OutMinute = InMinute
          /\ from_user \in RosterIdentifiers
             => \E o \in Offsets(FromTz) :
                    OutMinute = InMinute - o /\ (dt.month = 7 => o = StdOffset(FromTz) + 60)
    /\ (TaskDone /\ pc = "returned" /\ InAssignee \notin RosterIdentifiers)
       => task_json["timezone_info"].assignee_tz = "UTC"
    /\ (TaskDone /\ pc = "raised")
       => \/ "due_date" \notin DOMAIN task_in
          \/ DueRaises(task_in, assigner, InAssignee)
          \/ ReminderRaises(task_in, assigner, InAssignee)
    /\ (op = "convert" /\ pc = "raised") => TimeParseRaises(time_str)

WitnessC8 ==
    /\ ConvertDone
    /\ from_user = "Colin" /\ to_user = "Unknown"
    /\ StrftimeDate(dt) = <<2025, 7, 10>> /\ time_str = <<16, 0>>
    /\ conv_result = << <<2025, 7, 10>>, <<23, 0>> >>

----------------------------------------------------------------------------
(* Properties of preprocess *)

PreprocessDone == op = "preprocess" /\ pc # "call"

\* the text the idiom and date/time patterns are matched against
StrippedText ==
    LET timezone_info == _extract_timezone(text)
    IN IF DOMAIN timezone_info # {} THEN timezone_info.cleaned_text ELSE text

MatchedIdioms ==
    LET t == StrippedText IN {n \in 1..5 : IdiomMatches(n, t)}

\* C9: every returned confidence lies in [0, 1] (0..10 tenths), and the
\* confidence is 0.0 exactly when temporal_data is empty.
ZeroConfidenceIffNoTemporalData ==
    (PreprocessDone /\ pc = "returned")
    => /\ result.confidence \in 0..10
       /\ result.confidence = 0 <=> DOMAIN result.temporal_data = {}

\* C10: whenever one of the five idioms matches, preprocess returns with
\* confidence 0.9, a due date, and reminder fields equal to the due fields:
\* reminder_date is due_date, and reminder_time is due_time (both are set to
\* one value or neither is set).
TheoremC10 ==
    (PreprocessDone /\ MatchedIdioms # {})
    => /\ pc = "returned"
       /\ result.confidence = 9
       /\ {"due_date", "reminder_date"} \subseteq DOMAIN result.temporal_data
       /\ result.temporal_data["reminder_date"] = result.temporal_data["due_date"]
       /\ ("due_time" \in DOMAIN result.temporal_data)
          <=> ("reminder_time" \in DOMAIN result.temporal_data)
       /\ "due_time" \in DOMAIN result.temporal_data
          => result.temporal_data["reminder_time"] = result.temporal_data["due_time"]

WitnessC10 ==
    /\ PreprocessDone /\ pc = "returned"
    /\ MatchedIdioms = {1}
    /\ reference_time = Datetime(2025, 7, 10, 14, 59, 0)
    /\ result.confidence = 9
    /\ result.temporal_data["due_time"] = <<15, 59>>
    /\ result.temporal_data["reminder_time"] = <<15, 59>>

\* the generic path ran to its end: no idiom matched and preprocess returned
GenericDone == PreprocessDone /\ pc = "returned" /\ MatchedIdioms = {}

\* the spans _extract_time_parts finds in the text
TimeParts == _extract_time_parts(StrippedText)

\* the temporal_data of the result
Td == result.temporal_data

\* C11: when the generic path resolves a due_time and the text holds no
\* reminder phrase (no reminder pattern finds a span), the result has
\* reminder_time equal to due_time and reminder_date equal to due_date.
TheoremC11 ==
    (GenericDone /\ "due_time" \in DOMAIN Td /\ TimeParts.reminder_part = NoPart)
    => /\ {"due_date", "reminder_date", "reminder_time"} \subseteq DOMAIN Td
       /\ Td["reminder_time"] = Td["due_time"]
       /\ Td["reminder_date"] = Td["due_date"]

WitnessC11 ==
    /\ GenericDone
    /\ text = <<"remind", "Joel", "tomorrow", "at", "3pm">>
    /\ reference_time = Datetime(2025, 7, 10, 14, 30, 0)
    /\ TimeParts.reminder_part = NoPart
    /\ Td["due_date"] = <<2025, 7, 11>> /\ Td["due_time"] = <<15, 0>>
    /\ Td["reminder_date"] = <<2025, 7, 11>> /\ Td["reminder_time"] = <<15, 0>>

\* the custom pattern whose handler ran
Idiom == LET m == MatchedIdioms IN IF m = {} THEN 0 ELSE MinOf(m)

IdiomDone(n) == PreprocessDone /\ pc = "returned" /\ Idiom = n

\* the resolved due and the reference time, in minutes of one clock
DueMinute ==
    ToMinutes([Strptime(Td["due_date"]) EXCEPT !.hour = Td["due_time"][1],
                                               !.minute = Td["due_time"][2]])
RefMinute == ToMinutes(reference_time)
RefDate == <<reference_time.year, reference_time.month, reference_time.day>>

\* C12: "end of (the) hour" resolves due to minute 59 of the reference time's
\* hour; when the reference minute is already 59 (also at HH:59:00 exactly) it
\* resolves to minute 59 of the next hour, carrying the date past 23:59; the
\* due is never earlier than the reference time.
TheoremC12 ==
    IdiomDone(1)
    => /\ {"due_date", "due_time"} \subseteq DOMAIN Td
       /\ Td["due_time"][2] = 59
       /\ reference_time.minute # 59
          => Td["due_date"] = RefDate /\ Td["due_time"][1] = reference_time.hour
       /\ reference_time.minute = 59 => DueMinute = RefMinute + 60
       /\ \/ DueMinute > RefMinute
          \/ DueMinute = RefMinute /\ reference_time.second = 0

WitnessC12 ==
    /\ IdiomDone(1)
    /\ reference_time = Datetime(2025, 7, 10, 23, 59, 30)
    /\ Td["due_date"] = <<2025, 7, 11>>
    /\ Td["due_time"] = <<0, 59>>

\* C13: "top of (the) hour" resolves due to HH:00 of the next hour, strictly
\* later than the reference time and at most one hour after it, also when the
\* reference time is HH:00:00 exactly and when the next hour is on the next day.
TheoremC13 ==
    IdiomDone(2)
    => /\ {"due_date", "due_time"} \subseteq DOMAIN Td
       /\ Td["due_time"][2] = 0
       /\ DueMinute = RefMinute - reference_time.minute + 60
       /\ DueMinute > RefMinute
       /\ DueMinute <= RefMinute + 60

WitnessC13 ==
    /\ IdiomDone(2)
    /\ reference_time = Datetime(2025, 7, 10, 14, 0, 0)
    /\ Td["due_date"] = <<2025, 7, 10>>
    /\ Td["due_time"] = <<15, 0>>

\* C14: "end of (the) day" and "end of tonight" both resolve due_time to 23:59
\* and due_date to the calendar day of the reference time.
TheoremC14 ==
    (IdiomDone(3) \/ IdiomDone(4))
    => /\ {"due_date", "due_time"} \subseteq DOMAIN Td
       /\ Td["due_time"] = <<23, 59>>
       /\ Td["due_date"] = RefDate

WitnessC14 ==
    /\ IdiomDone(4)
    /\ text = <<"check", "batteries", "end", "of", "tonight">>
    /\ reference_time = Datetime(2025, 12, 31, 23, 30, 0)
    /\ Td["due_date"] = <<2025, 12, 31>>
    /\ Td["due_time"] = <<23, 59>>
    /\ result.processed_text = <<"check", "batteries", "at", "23:59">>

\* day numbers of the reference date and of the resolved due date
RefOrdinal == ToOrdinal(reference_time.year, reference_time.month,
                        reference_time.day)
DueOrdinal == ToOrdinal(Td["due_date"][1], Td["due_date"][2], Td["due_date"][3])
RefWeekday == Weekday(reference_time.year, reference_time.month,
                      reference_time.day)

\* C15: "(this) weekend" resolves due_date to the next Saturday after the
\* reference date when the reference day is not a Saturday; on a Saturday
\* before 12:00 it is that same day, and from 12:00 on (noon included) it is
\* the following Sunday.
TheoremC15 ==
    IdiomDone(5)
    => /\ "due_date" \in DOMAIN Td
       /\ RefWeekday # 5
          => /\ DueOrdinal \in (RefOrdinal + 1)..(RefOrdinal + 6)
             /\ Weekday(Td["due_date"][1], Td["due_date"][2], Td["due_date"][3]) = 5
       /\ (RefWeekday = 5 /\ reference_time.hour < 12) => Td["due_date"] = RefDate
       /\ (RefWeekday = 5 /\ reference_time.hour >= 12)
          => DueOrdinal = RefOrdinal + 1

WitnessC15 ==
    /\ IdiomDone(5)
    /\ reference_time = Datetime(2025, 7, 12, 12, 0, 0)
    /\ RefWeekday = 5
    /\ Td["due_date"] = <<2025, 7, 13>>

\* C16: "(this) weekend" resolves a time of day as well as a date: due_time
\* and, identically, reminder_time are 09:00.
WeekendDueAtNine ==
    IdiomDone(5)
    => /\ {"due_time", "reminder_time"} \subseteq DOMAIN Td
       /\ Td["due_time"] = <<9, 0>>
       /\ Td["reminder_time"] = <<9, 0>>

ReminderMinute ==
    ToMinutes([Strptime(Td["reminder_date"]) EXCEPT
                   !.hour = Td["reminder_time"][1],
                   !.minute = Td["reminder_time"][2]])

\* the text holds a "remind ... N minutes before" phrase
RelativeReminderPhrase == ReminderMatch(3, StrippedText) # NoPart

\* C17: in the generic path, when the text holds a "remind ... N minutes
\* before" phrase and a due_time was resolved, reminder_date and reminder_time
\* are the due date and time minus N minutes.
RelativeReminderIsDueMinusN ==
    (GenericDone /\ RelativeReminderPhrase /\ "due_time" \in DOMAIN Td)
    => /\ {"reminder_date", "reminder_time"} \subseteq DOMAIN Td
       /\ ReminderMinute = DueMinute - BeforeMinutes(StrippedText)

\* C18: in the generic path the confidence is 0.7 when at least due_date was
\* resolved, 0.8 only when in addition a reminder_time different from due_time
\* was resolved, and 0.0 when nothing was resolved; a result with confidence of
\* 0.7 or more always holds due_date.
GenericConfidenceTiers ==
    GenericDone
    => /\ result.confidence \in {0, 7, 8}
       /\ "due_date" \in DOMAIN Td => result.confidence >= 7
       /\ result.confidence >= 7 => "due_date" \in DOMAIN Td
       /\ result.confidence = 8
          => /\ "reminder_time" \in DOMAIN Td
             /\ Td["reminder_time"] # Get(Td, "due_time", None)

\* C19: preprocess never raises: when the date/time parser rejects or raises
\* on an extracted span, preprocess still returns a result.
PreprocessAlwaysReturns == PreprocessDone => pc = "returned"

----------------------------------------------------------------------------
(* Exceptions of the converter *)

\* C20: process_task_with_timezones and convert_time_between_users never
\* raise: a task without due_date, or a due_time or reminder_time that is not
\* of the form HH:MM, is handled without an exception.
ConverterNeverRaises ==
    (TaskDone \/ (op = "convert" /\ pc # "call")) => pc # "raised"

----------------------------------------------------------------------------
(* The timezone found by preprocess *)

\* the dict _extract_timezone returns for the text, empty when it returns None
FoundTimezone == _extract_timezone(text)

\* C21: whenever the text holds a timezone abbreviation or a "<city> time"
\* phrase, temporal_data of the result holds timezone_context with the matched
\* or mapped abbreviation, whether the rest of the text matches an idiom, a
\* generic date/time phrase or nothing.
TimezoneContextAlwaysReported ==
    (PreprocessDone /\ pc = "returned" /\ DOMAIN FoundTimezone # {})
    => /\ "timezone_context" \in DOMAIN result.temporal_data
       /\ result.temporal_data["timezone_context"] = FoundTimezone.timezone

----------------------------------------------------------------------------
(* Assigner and assignee the same person *)

\* C22: when assigner and assignee are the same person, the task is returned
\* with due_time unchanged and no timezone_info key is added to it.
SamePersonAddsNoTimezoneInfo ==
    (TaskDone /\ SamePerson(assigner, InAssignee))
    => /\ pc = "returned"
       /\ SameField(task_in, task_json, "due_time")
       /\ SameField(task_in, task_json, "timezone_info")

----------------------------------------------------------------------------
(* Username normalization *)

\* the roster member a raw identifier names: case variants of the canonical
\* names, the chat handle and the display name with its organization suffix
CanonicalOf(n) ==
    CASE n \in {"Colin", "colin", "COLIN", "Colin_10NetZero", "colin_10netzero",
                "colin aulds | 10netzero.com", "Colin Aulds | 10NetZero.com"}
           -> "Colin"
      [] n \in {"Joel", "joel"} -> "Joel"
      [] n \in {"Bryan", "bryan"} -> "Bryan"
      [] OTHER -> "nobody"

----------------------------------------------------------------------------
(* Properties of parse_task *)

ParseTaskDone == op = "parse_task" /\ pc = "returned"

\* the prompt has been built
Prompted == op = "parse_task" /\ pc \in {"prompted", "failed", "replied", "returned"}

\* C24: in parse_task, when the confidence of preprocessing is 0.7 or more the
\* due and reminder values of the preprocessor are the temporal fields of the
\* task that is converted and returned, and a timezone_context found by the
\* preprocessor decides the conversion (times_are_in is that timezone and
\* nothing is converted), whatever timezone the language model reported.
PreprocessorFieldsAreFinal ==
    (ParseTaskDone /\ result.confidence >= 7)
    => /\ \A k \in {"due_date", "due_time", "reminder_date", "reminder_time"}
                     \cap DOMAIN result.temporal_data :
              /\ k \in DOMAIN task_in
              /\ task_in[k] = result.temporal_data[k]
       /\ "timezone_context" \in DOMAIN result.temporal_data
          => /\ "times_are_in" \in DOMAIN task_json["timezone_info"]
             /\ task_json["timezone_info"].times_are_in
                    = result.temporal_data["timezone_context"]
             /\ TemporalUnchanged

\* C25: the prompt carries processed_text and the pre-parsed fields as labelled
\* lines exactly when the confidence of preprocessing is 0.7 or more; below
\* 0.7 it carries the original input text and no field of the preprocessor.
TheoremC25 ==
    Prompted
    => LET td == result.temporal_data
       IN /\ result.confidence >= 7 <=> prompt.form = "hints"
          /\ prompt.form = "hints"
             => /\ prompt.task = result.processed_text
                /\ \A l \in {"Pre-parsed due date", "Pre-parsed due time",
                             "Detected timezone"} :
                       /\ l \in DOMAIN prompt.hints <=> HintField(l) \in DOMAIN td
                       /\ l \in DOMAIN prompt.hints
                          => prompt.hints[l] = td[HintField(l)]
                /\ "Pre-parsed reminder time" \in DOMAIN prompt.hints
                   <=> /\ "reminder_time" \in DOMAIN td
                       /\ td["reminder_time"] # Get(td, "due_time", None)
                /\ "Pre-parsed reminder time" \in DOMAIN prompt.hints
                   => prompt.hints["Pre-parsed reminder time"] = td["reminder_time"]
          /\ result.confidence < 7
             => /\ prompt.form = "plain"
                /\ prompt.task = text
                /\ DOMAIN prompt.hints = {}

WitnessC25 ==
    /\ op = "parse_task" /\ pc = "prompted"
    /\ text = <<"tomorrow", "at", "3pm", "CST">>
    /\ result.confidence = 8
    /\ prompt.form = "hints"
    /\ prompt.task = result.processed_text
    /\ DOMAIN prompt.hints
           = {"Pre-parsed due date", "Pre-parsed due time", "Detected timezone"}
    /\ prompt.hints["Pre-parsed due time"] = <<15, 0>>
    /\ prompt.hints["Detected timezone"] = "CST"

----------------------------------------------------------------------------
(* The roster *)

\* C26: get_user_timezone returns America/Los_Angeles for Colin,
\* America/Chicago for Joel and America/Los_Angeles for Bryan.
RosterZonesAsTested ==
    ConvertDone
    => \A n \in {from_user, to_user} :
           /\ n = "Colin" => get_user_timezone(n) = "America/Los_Angeles"
           /\ n = "Joel" => get_user_timezone(n) = "America/Chicago"
           /\ n = "Bryan" => get_user_timezone(n) = "America/Los_Angeles"

----------------------------------------------------------------------------
(* Properties of concurrent calls *)

\* call p has ended
Ended(p) == calls[p].pc \in {"returned", "raised"}

\* what call p gives when it runs alone
Alone(p) ==
    IF calls[p].arg.kind = "preprocess"
    THEN preprocess(calls[p].arg.text, calls[p].arg.ref, calls[p].arg.lib)
    ELSE process_task_with_timezones(calls[p].arg.task, calls[p].arg.assigner)

\* C27: in every interleaving of concurrent calls on distinct inputs, the
\* preprocess calls sharing one TemporalProcessor, each call ends as it ends
\* when run alone, and the pattern table, the city table, the roster and the
\* alias table stay as constructed.
TheoremC27 ==
    op = "concurrent"
    => /\ tables = ConstructedTables
       /\ \A p \in Procs :
              Ended(p)
              => /\ calls[p].pc = Alone(p).status
                 /\ calls[p].arg.kind = "preprocess" /\ calls[p].pc = "returned"
                    => calls[p].out = Alone(p).result
                 /\ calls[p].arg.kind = "process_task"
                    => calls[p].task = Alone(p).task

WitnessC27 ==
    /\ op = "concurrent"
    /\ calls[1].arg.text = <<"end", "of", "day", "this", "weekend">>
    /\ calls[1].pc = "returned"
    /\ calls[1].out.temporal_data["due_time"] = <<23, 59>>
    /\ calls[2].arg.text = <<"this", "weekend">>
    /\ calls[2].pc = "returned"
    /\ calls[2].out.temporal_data["due_date"] = <<2025, 7, 12>>

----------------------------------------------------------------------------
(* The keys process_task_with_timezones leaves alone *)

ConverterKeys ==
    {"due_date", "due_time", "reminder_date", "reminder_time", "timezone_info"}

\* C28: in all three branches only due_date, due_time, reminder_date,
\* reminder_time and timezone_info of the task are modified: every other key
\* is present afterwards with the value it had, and no other key is added.
TheoremC28 ==
    TaskDone
    => \A k \in (DOMAIN task_in \cup DOMAIN task_json) \ ConverterKeys :
           SameField(task_in, task_json, k)

WitnessC28 ==
    /\ TaskDone /\ pc = "returned"
    /\ assigner = "Colin" /\ InAssignee = "joel"
    /\ "timezone_context" \notin DOMAIN task_in
    /\ Get(task_in, "due_date", EmptyStr) = <<2025, 7, 10>>
    /\ Get(task_in, "due_time", EmptyStr) = <<23, 30>>
    /\ Get(task_json, "due_date", EmptyStr) = <<2025, 7, 11>>
    /\ Get(task_json, "due_time", EmptyStr) = <<1, 30>>
    /\ task_json["timezone_info"].converted = TRUE
    /\ task_json["assignee"] = "joel"
    /\ task_json["task"] = "Check the backyard for oil"
    /\ task_json["status"] = "pending"

----------------------------------------------------------------------------
(* Idioms before generic parsing *)

\* C29: when the text without its timezone phrase matches an idiom pattern,
\* preprocess returns the result of the first matching idiom in the order end
\* of hour, top of hour, end of day, end of tonight, weekend, and the generic
\* date/time/reminder extraction is not run, also when the text holds a
\* generic date or time phrase such as "tomorrow" or "at 3pm".
TheoremC29 ==
    (PreprocessDone /\ MatchedIdioms # {})
    => LET t == StrippedText
           h == Handler(MinOf({n \in 1..5 : IdiomMatches(n, t)}), t,
                        reference_time)
       IN /\ pc = "returned"
          /\ result.confidence = 9
          /\ result.temporal_data = h.temporal_data
          /\ result.processed_text = h.processed_text
          /\ result.original_text = text

WitnessC29 ==
    /\ PreprocessDone /\ pc = "returned"
    /\ text = <<"tomorrow", "at", "3pm", "end", "of", "tonight">>
    /\ parser = "raises"
    /\ reference_time = Datetime(2025, 7, 10, 14, 30, 0)
    /\ MatchedIdioms = {4}
    /\ result.confidence = 9
    /\ result.temporal_data =
           [due_date |-> <<2025, 7, 10>>, due_time |-> <<23, 59>>,
            reminder_date |-> <<2025, 7, 10>>, reminder_time |-> <<23, 59>>]

----------------------------------------------------------------------------
(* The guards of the two pairs *)

\* the task goes through the converting branch
Converting ==
    /\ TaskDone
    /\ Get(task_in, "timezone_context", "assigner_local") = "assigner_local"
    /\ ~SamePerson(assigner, InAssignee)
    /\ "due_date" \in DOMAIN task_in

\* C30: in the converting branch the due pair and the reminder pair have
\* separate guards: with a due_time and a reminder_time present and
\* reminder_date absent or empty, due_date and due_time are converted,
\* reminder_time keeps its value, and timezone_info.converted is true.
TheoremC30 ==
    (/\ Converting
     /\ Truthy(Get(task_in, "due_time", EmptyStr))
     /\ ~TimeParseRaises(Get(task_in, "due_time", EmptyStr))
     /\ Truthy(Get(task_in, "reminder_time", EmptyStr))
     /\ ~Truthy(Get(task_in, "reminder_date", EmptyStr)))
    => LET due == convert_time_between_users(Strptime(task_in["due_date"]),
                      task_in["due_time"], assigner, InAssignee, FALSE)
       IN /\ pc = "returned"
          /\ task_json["due_date"] = due[1]
          /\ task_json["due_time"] = due[2]
          /\ SameField(task_in, task_json, "reminder_time")
          /\ SameField(task_in, task_json, "reminder_date")
          /\ task_json["timezone_info"].converted = TRUE

WitnessC30 ==
    /\ Converting /\ pc = "returned"
    /\ assigner = "Colin" /\ InAssignee = "Joel"
    /\ task_in["due_date"] = <<2025, 7, 10>>
    /\ Get(task_in, "due_time", EmptyStr) = <<16, 0>>
    /\ Get(task_in, "reminder_time", EmptyStr) = <<15, 0>>
    /\ "reminder_date" \notin DOMAIN task_in
    /\ task_json["due_time"] = <<18, 0>>
    /\ task_json["reminder_time"] = <<15, 0>>
    /\ "reminder_date" \notin DOMAIN task_json
    /\ task_json["timezone_info"].converted = TRUE

====
